---- MODULE Spec2Model ----
(***************************************************************************)
(* Model of the forecast feature-extraction code of generate_csv.py: the   *)
(* three-hour window generator, the Beijing/UTC converters, the gust scale *)
(* mapping and the per-window precipitation classifier.                    *)
(*                                                                         *)
(* Conventions.                                                            *)
(*  - A datetime is a record [ord, sec]: the proleptic Gregorian ordinal   *)
(*    of its date (1 = 0001-01-01, as datetime.toordinal) and the second   *)
(*    of its day, with tz, the name of its tzinfo ("naive" for none), and  *)
(*    off, its UTC offset in seconds (0 for a naive datetime).             *)
(*  - A time string is the record of its numeric fields                    *)
(*    [kind, Y, m, d, H, M, S]; kind "nomatch" is a string the format does *)
(*    not match, kind "nonstr" an argument that is no string.              *)
(*  - Precipitation amounts are integers in 1/100 mm; wind speeds are      *)
(*    integers in 1/10 m/s; ifrain codes are integers in tenths            *)
(*    (31 is 3.1); rain_percent is the exact fraction [num, den].          *)
(***************************************************************************)
EXTENDS Integers, Sequences, FiniteSets, TLC

VARIABLES
    \* generate_three_hour_intervals
    start_time_str, current_time, end_time_boundary, time_intervals,
    gen_pc, gen_exc,
    \* utc_to_beijing / beijing_to_utc
    tz_arg, tz_val, tz_calls,
    \* get_uvg_by_3h and its ws2scale_city
    n_windows, max_wind_speed, uvg_inner, uvg_list, uvg_pc, uvg_exc,
    \* get_rain_by_3h
    mon, cells, count, rain_type, tpmax, rain_percent, ifrain,
    ifrain_list, tpmax_list, rain_percent_list, rain_pc,
    time_str, rest_cells, rain_ix, interval_start,
    \* ws2scale_city, called on two speeds
    ws_a, ws_b, scale_a, scale_b, ws_pc,
    \* __main__, the driver
    missing, absent, on_grid, current_date, end_date, hour_ix, calls, lists,
    tables, drv_pc, drv_exc,
    \* get_cloud_by_3h
    cloud_n, r_levels, meantcc, meanlcc, cloud, cloud_list, cloud_pc,
    \* get_single_response of generate_report.py
    max_retries, attempt, invoked, response, result, resp_pc

gen_vars == <<start_time_str, current_time, end_time_boundary, time_intervals,
              gen_pc, gen_exc>>

tz_vars == <<tz_arg, tz_val, tz_calls>>

uvg_vars == <<n_windows, max_wind_speed, uvg_inner, uvg_list, uvg_pc, uvg_exc>>

rain_vars == <<mon, cells, count, rain_type, tpmax, rain_percent, ifrain,
               ifrain_list, tpmax_list, rain_percent_list, rain_pc,
               time_str, rest_cells, rain_ix, interval_start>>

ws_vars == <<ws_a, ws_b, scale_a, scale_b, ws_pc>>

drv_vars == <<missing, absent, on_grid, current_date, end_date, hour_ix, calls, lists,
              tables, drv_pc, drv_exc>>

cloud_vars == <<cloud_n, r_levels, meantcc, meanlcc, cloud, cloud_list, cloud_pc>>

resp_vars == <<max_retries, attempt, invoked, response, result, resp_pc>>

vars == <<gen_vars, tz_vars, uvg_vars, rain_vars, ws_vars, drv_vars, cloud_vars,
          resp_vars>>

\* what the actions of one function leave alone
not_gen   == <<tz_vars, uvg_vars, rain_vars, ws_vars,
              drv_vars, cloud_vars, resp_vars>>
not_tz    == <<gen_vars, uvg_vars, rain_vars, ws_vars,
              drv_vars, cloud_vars, resp_vars>>
not_uvg   == <<gen_vars, tz_vars, rain_vars, ws_vars,
              drv_vars, cloud_vars, resp_vars>>
not_rain  == <<gen_vars, tz_vars, uvg_vars, ws_vars,
              drv_vars, cloud_vars, resp_vars>>
not_ws    == <<gen_vars, tz_vars, uvg_vars, rain_vars,
              drv_vars, cloud_vars, resp_vars>>
not_drv   == <<gen_vars, tz_vars, uvg_vars, rain_vars,
              ws_vars, cloud_vars, resp_vars>>
not_cloud == <<gen_vars, tz_vars, uvg_vars, rain_vars,
              ws_vars, drv_vars, resp_vars>>
not_resp  == <<gen_vars, tz_vars, uvg_vars, rain_vars,
              ws_vars, drv_vars, cloud_vars>>

-----------------------------------------------------------------------------
(* Calendar arithmetic of the datetime library.                            *)

IsLeap(y) == (y % 4 = 0 /\ y % 100 # 0) \/ y % 400 = 0

DaysInMonth(y, m) ==
    IF m = 2 THEN (IF IsLeap(y) THEN 29 ELSE 28)
    ELSE IF m \in {4, 6, 9, 11} THEN 30 ELSE 31

DaysBeforeYear(y) ==
    (y - 1) * 365 + ((y - 1) \div 4) - ((y - 1) \div 100) + ((y - 1) \div 400)

RECURSIVE DaysBeforeMonth(_, _)
DaysBeforeMonth(y, m) ==
    IF m <= 1 THEN 0 ELSE DaysBeforeMonth(y, m - 1) + DaysInMonth(y, m - 1)

ymd2ord(y, m, d) == DaysBeforeYear(y) + DaysBeforeMonth(y, m) + d

\* datetime.max.toordinal(): the date 9999-12-31
MaxOrdinal == ymd2ord(9999, 12, 31)

YearOf(n) ==
    CHOOSE y \in (n \div 366)..((n \div 365) + 1) :
        y >= 1 /\ DaysBeforeYear(y) < n /\ n <= DaysBeforeYear(y + 1)

MonthOf(n) ==
    LET y == YearOf(n)
        k == n - DaysBeforeYear(y)
    IN  CHOOSE m \in 1..12 :
            DaysBeforeMonth(y, m) < k /\ k <= DaysBeforeMonth(y, m) + DaysInMonth(y, m)

DayOf(n) ==
    LET y == YearOf(n) IN n - DaysBeforeYear(y) - DaysBeforeMonth(y, MonthOf(n))

NoTz == "naive"

\* datetime(y, m, d, H, M, S), naive
DT(y, m, d, H, M, S) ==
    [ord |-> ymd2ord(y, m, d), sec |-> H * 3600 + M * 60 + S, tz |-> NoTz, off |-> 0]

\* dt + timedelta(seconds = n), on the wall clock (tzinfo is kept)
AddSeconds(dt, n) ==
    LET total == dt.sec + n
    IN  [ord |-> dt.ord + (total \div 86400), sec |-> total % 86400,
         tz |-> dt.tz, off |-> dt.off]

\* datetime arithmetic raises OverflowError outside 0001-01-01 .. 9999-12-31
Representable(dt) == dt.ord >= 1 /\ dt.ord <= MaxOrdinal

\* a < b for two datetimes of the same awareness, compared on the wall clock
DtLess(a, b) == a.ord < b.ord \/ (a.ord = b.ord /\ a.sec < b.sec)

\* (b - a).total_seconds() for datetimes at most a few days apart
DtDiff(a, b) == (b.ord - a.ord) * 86400 + (b.sec - a.sec)

-----------------------------------------------------------------------------
(* strptime / strftime with the format "%Y-%m-%dT%H:%M:%S".                *)

\* the fields match the directives' patterns (%S admits 60 and 61)
MatchesFormat(s) ==
    /\ s.kind = "str"
    /\ s.Y \in 0..9999 /\ s.m \in 1..12 /\ s.d \in 1..31
    /\ s.H \in 0..23 /\ s.M \in 0..59 /\ s.S \in 0..61

\* the matched fields are accepted by the datetime constructor
FieldsValid(s) ==
    /\ s.Y >= 1
    /\ s.d <= DaysInMonth(s.Y, s.m)
    /\ s.S <= 59

\* datetime.strptime raises ValueError
StrptimeValueError(s) ==
    s.kind = "nomatch" \/ (s.kind = "str" /\ ~(MatchesFormat(s) /\ FieldsValid(s)))

\* datetime.strptime raises TypeError
StrptimeTypeError(s) == s.kind = "nonstr"

strptime(s) == DT(s.Y, s.m, s.d, s.H, s.M, s.S)

\* %Y writes the year without padding (glibc): below the year 1000 the
\* string written has fewer than four year digits and the format, whose %Y
\* reads exactly four, does not match it
strftime(dt) ==
    [kind |-> IF YearOf(dt.ord) >= 1000 THEN "str" ELSE "nomatch",
     Y |-> YearOf(dt.ord), m |-> MonthOf(dt.ord), d |-> DayOf(dt.ord),
     H |-> dt.sec \div 3600, M |-> (dt.sec % 3600) \div 60, S |-> dt.sec % 60]

NoString == [kind |-> "nonstr", Y |-> 0, m |-> 0, d |-> 0, H |-> 0, M |-> 0, S |-> 0]
NoMatch  == [kind |-> "nomatch", Y |-> 0, m |-> 0, d |-> 0, H |-> 0, M |-> 0, S |-> 0]

-----------------------------------------------------------------------------
(* generate_three_hour_intervals                                           *)

NoTime == [ord |-> 0, sec |-> 0, tz |-> NoTz, off |-> 0]

\* the start strings tried: in and out of range fields, leap days, the last
\* representable date, issue hours (5, 11, 17, 20) and hours between them
GenYears   == {2020, 2021, 9999}
GenMonths  == {0, 2, 3, 12, 13}
GenDays    == {0, 1, 28, 29, 30, 31, 32}
GenHours   == {0, 5, 6, 17, 19, 20, 23, 24}
GenMinutes == {0, 30, 60}
GenSeconds == {0, 59, 60}

GenInputs ==
    {[kind |-> "str", Y |-> y, m |-> m, d |-> d, H |-> h, M |-> mi, S |-> s] :
        y \in GenYears, m \in GenMonths, d \in GenDays,
        h \in GenHours, mi \in GenMinutes, s \in GenSeconds}
    \cup {NoString, NoMatch}

GenInit ==
    /\ start_time_str \in GenInputs
    /\ current_time = NoTime
    /\ end_time_boundary = NoTime
    /\ time_intervals = <<>>
    /\ gen_pc = "try"
    /\ gen_exc = "none"

\* mutation: the ValueError is not caught
OnValueError_propagates == [pc |-> "raised", exc |-> "ValueError"]

\* line 48-50, except ValueError: print the message and return []
OnValueError == [pc |-> "returned", exc |-> "none"]

\* line 46-50: try: current_time = strptime(...) except ValueError: return []
GenParse ==
    /\ gen_pc = "try"
    /\ IF StrptimeTypeError(start_time_str)
       THEN /\ gen_pc' = "raised"
            /\ gen_exc' = "TypeError"
            /\ UNCHANGED <<current_time, time_intervals>>
       ELSE IF StrptimeValueError(start_time_str)
       THEN /\ gen_pc' = OnValueError.pc
            /\ gen_exc' = OnValueError.exc
            /\ time_intervals' = <<>>
            /\ UNCHANGED current_time
       ELSE /\ current_time' = strptime(start_time_str)
            /\ gen_pc' = "bound"
            /\ UNCHANGED <<gen_exc, time_intervals>>
    /\ UNCHANGED <<start_time_str, end_time_boundary>>
    /\ UNCHANGED not_gen

\* line 52-53: 20:00 on the date after current_time's date
EndTimeBoundary(cur) == [ord |-> cur.ord + 1, sec |-> 20 * 3600, tz |-> NoTz, off |-> 0]

\* line 52-55
GenBoundary ==
    /\ gen_pc = "bound"
    /\ IF Representable(AddSeconds(current_time, 86400))
       THEN /\ end_time_boundary' = EndTimeBoundary(current_time)
            /\ time_intervals' = <<>>
            /\ gen_pc' = "loop"
            /\ UNCHANGED gen_exc
       ELSE /\ gen_pc' = "raised"
            /\ gen_exc' = "OverflowError"
            /\ UNCHANGED <<end_time_boundary, time_intervals>>
    /\ UNCHANGED <<start_time_str, current_time>>
    /\ UNCHANGED not_gen

\* mutation: the last window is not shortened to the boundary
EndTime_unclipped(cur, boundary) == AddSeconds(cur, 3 * 3600)

\* line 58-60: end_time = current_time + 3h, shortened to the boundary
EndTime(cur, boundary) ==
    LET end_time == AddSeconds(cur, 3 * 3600)
    IN  IF DtLess(boundary, end_time) THEN boundary ELSE end_time

\* line 57-63: one pass of the while loop
GenAppend ==
    /\ gen_pc = "loop"
    /\ DtLess(current_time, end_time_boundary)
    /\ LET end_time == EndTime(current_time, end_time_boundary)
       IN  /\ time_intervals' =
                Append(time_intervals, <<strftime(current_time), strftime(end_time)>>)
           /\ current_time' = end_time
    /\ UNCHANGED <<start_time_str, end_time_boundary, gen_pc, gen_exc>>
    /\ UNCHANGED not_gen

\* line 57, 65: the loop condition fails, return time_intervals
GenReturn ==
    /\ gen_pc = "loop"
    /\ ~DtLess(current_time, end_time_boundary)
    /\ gen_pc' = "returned"
    /\ UNCHANGED <<start_time_str, current_time, end_time_boundary, time_intervals, gen_exc>>
    /\ UNCHANGED not_gen

GenNext == GenParse \/ GenBoundary \/ GenAppend \/ GenReturn

\* line 57-63 as a whole: the windows from cur up to the boundary
RECURSIVE IntervalsFrom(_, _)
IntervalsFrom(cur, boundary) ==
    IF DtLess(cur, boundary)
    THEN LET end_time == EndTime(cur, boundary)
         IN  <<<<strftime(cur), strftime(end_time)>>>> \o IntervalsFrom(end_time, boundary)
    ELSE <<>>

\* line 35-65 as one call, for a string start whose next day exists
generate_three_hour_intervals(s) ==
    IF StrptimeValueError(s) THEN <<>>
    ELSE IntervalsFrom(strptime(s), EndTimeBoundary(strptime(s)))

-----------------------------------------------------------------------------
(* pytz: UTC and the zone Asia/Shanghai.  The zone is on +08:00 (CST) from *)
(* 1949 on, except for the summers of 1986 to 1991, when it is on +09:00   *)
(* (CDT); the table lists those transitions, at their UTC times.  Instants *)
(* before 1950 are outside the model.                                      *)

StdInfo == [off |-> 8 * 3600, dst |-> FALSE]
DstInfo == [off |-> 9 * 3600, dst |-> TRUE]

ShanghaiTransitions ==
    << [at |-> DT(1986, 5, 3, 18, 0, 0),  info |-> DstInfo],
       [at |-> DT(1986, 9, 13, 17, 0, 0), info |-> StdInfo],
       [at |-> DT(1987, 4, 11, 18, 0, 0), info |-> DstInfo],
       [at |-> DT(1987, 9, 12, 17, 0, 0), info |-> StdInfo],
       [at |-> DT(1988, 4, 16, 18, 0, 0), info |-> DstInfo],
       [at |-> DT(1988, 9, 10, 17, 0, 0), info |-> StdInfo],
       [at |-> DT(1989, 4, 15, 18, 0, 0), info |-> DstInfo],
       [at |-> DT(1989, 9, 16, 17, 0, 0), info |-> StdInfo],
       [at |-> DT(1990, 4, 14, 18, 0, 0), info |-> DstInfo],
       [at |-> DT(1990, 9, 15, 17, 0, 0), info |-> StdInfo],
       [at |-> DT(1991, 4, 13, 18, 0, 0), info |-> DstInfo],
       [at |-> DT(1991, 9, 14, 17, 0, 0), info |-> StdInfo] >>

\* the tzinfo in force at the naive time t read as UTC: the last transition
\* at or before t (bisect_right on the transition times)
TzInfoAt(t) ==
    LET past == {i \in 1..Len(ShanghaiTransitions) : ~DtLess(t, ShanghaiTransitions[i].at)}
    IN  IF past = {} THEN StdInfo
        ELSE ShanghaiTransitions[CHOOSE i \in past : \A j \in past : j <= i].info

\* dt.replace(tzinfo = pytz.UTC)
ReplaceUtc(dt) == [dt EXCEPT !.tz = "UTC", !.off = 0]

\* the naive UTC wall clock of an aware datetime
UtcWall(dt) == [AddSeconds(dt, 0 - dt.off) EXCEPT !.tz = NoTz, !.off = 0]

\* aware.astimezone(pytz.UTC)
AsUtc(dt) == [UtcWall(dt) EXCEPT !.tz = "UTC", !.off = 0]

\* aware.astimezone(beijing_tz)
AsShanghai(dt) ==
    LET utc  == UtcWall(dt)
        info == TzInfoAt(utc)
    IN  [AddSeconds(utc, info.off) EXCEPT !.tz = "Asia/Shanghai", !.off = info.off]

\* the tzinfos of the zone under which the wall clock dt is a time that
\* exists: those in force a day before and a day after that survive
\* normalize()
PossibleInfos(dt) ==
    {inf \in {TzInfoAt(AddSeconds(dt, 0 - 86400)), TzInfoAt(AddSeconds(dt, 86400))} :
        TzInfoAt(AddSeconds(dt, 0 - inf.off)) = inf}

\* mutation: the naive local time is labelled UTC instead of localized
Localize_as_utc(dt) == [dt EXCEPT !.tz = "UTC", !.off = 0]

\* line 30, beijing_tz.localize(dt), is_dst = False
Localize(dt) ==
    LET poss == PossibleInfos(dt)
        back == PossibleInfos(AddSeconds(dt, 0 - 6 * 3600))
        pick(S) == IF Cardinality(S) = 1 THEN CHOOSE inf \in S : TRUE
                   ELSE CHOOSE inf \in S : ~inf.dst
        inf  == IF poss # {} THEN pick(poss) ELSE pick(back)
    IN  [dt EXCEPT !.tz = "Asia/Shanghai", !.off = inf.off]

\* an argument of the converters: an ISO string or a datetime
StrArg(s) == [isstr |-> TRUE, str |-> s, dt |-> NoTime]
DtArg(d)  == [isstr |-> FALSE, str |-> NoMatch, dt |-> d]

\* datetime.fromisoformat on "YYYY-MM-DDTHH:MM:SS"
fromisoformat(s) == strptime(s)

\* line 14-22
utc_to_beijing(utc_time) ==
    LET t == IF utc_time.isstr THEN fromisoformat(utc_time.str) ELSE utc_time.dt
    IN  AsShanghai(ReplaceUtc(t))

\* line 25-32
beijing_to_utc(beijing_time) ==
    LET t == IF beijing_time.isstr THEN fromisoformat(beijing_time.str) ELSE beijing_time.dt
        a == IF t.tz = NoTz THEN Localize(t) ELSE t
    IN  AsUtc(a)

\* the days the conversions are tried on: around the first and the last
\* summer-time transitions of the zone, and days of the data set
TzDays ==
    { <<1986, 5, 3>>, <<1986, 5, 4>>, <<1991, 4, 13>>, <<1991, 4, 14>>,
      <<1991, 7, 1>>, <<1991, 9, 14>>, <<1991, 9, 15>>, <<2021, 1, 1>>,
      <<2021, 6, 30>> }
TzMinutes == {0, 30}

TzDatetimes ==
    {DT(d[1], d[2], d[3], h, mi, 0) : d \in TzDays, h \in 0..23, mi \in TzMinutes}

TzInputs == {DtArg(x) : x \in TzDatetimes} \cup {StrArg(strftime(x)) : x \in TzDatetimes}

\* how many conversions are chained on one input
MaxCalls == 2

TzInit ==
    /\ tz_arg \in TzInputs
    /\ tz_val = tz_arg
    /\ tz_calls = <<>>

CallUtcToBeijing ==
    /\ Len(tz_calls) < MaxCalls
    /\ tz_val' = DtArg(utc_to_beijing(tz_val))
    /\ tz_calls' = Append(tz_calls, "utc_to_beijing")
    /\ UNCHANGED tz_arg
    /\ UNCHANGED not_tz

CallBeijingToUtc ==
    /\ Len(tz_calls) < MaxCalls
    /\ tz_val' = DtArg(beijing_to_utc(tz_val))
    /\ tz_calls' = Append(tz_calls, "beijing_to_utc")
    /\ UNCHANGED tz_arg
    /\ UNCHANGED not_tz

TzNext == CallUtcToBeijing \/ CallBeijingToUtc

TzIdle == tz_arg = DtArg(NoTime) /\ tz_val = DtArg(NoTime) /\ tz_calls = <<>>
GenIdle ==
    /\ start_time_str = NoMatch /\ current_time = NoTime /\ end_time_boundary = NoTime
    /\ time_intervals = <<>> /\ gen_pc = "idle" /\ gen_exc = "none"

-----------------------------------------------------------------------------
(* get_uvg_by_3h: the gust scale of each window.  Speeds are in 1/10 m/s,  *)
(* scales in tenths (65 is 6.5).                                           *)

\* a wind speed: a number, or NaN
Speed(v)  == [nan |-> FALSE, v |-> v]
SpeedNaN  == [nan |-> TRUE, v |-> 0]

\* line 208: undef = 32767
undef == 32767 * 10

\* the outcomes of a call of ws2scale_city; an entry of uvg_list
Scale(n)  == [exc |-> "none", none |-> FALSE, nan |-> FALSE, scale |-> n]
ScaleNaN  == [exc |-> "none", none |-> FALSE, nan |-> TRUE, scale |-> 0]
PyNone    == [exc |-> "none", none |-> TRUE, nan |-> FALSE, scale |-> 0]
Unbound   == [exc |-> "UnboundLocalError", none |-> FALSE, nan |-> FALSE, scale |-> 0]

Abs(v) == IF v < 0 THEN 0 - v ELSE v

\* mutation: the table without its 10.5 band
ws2scale_city_gap(ws) ==
    IF ws.nan THEN ScaleNaN
    ELSE IF Abs(ws.v) = undef THEN Unbound
    ELSE LET w == ws.v IN
         IF 0 <= w /\ w < 50 THEN Scale(20)
    ELSE IF 50 <= w /\ w < 80 THEN Scale(40)
    ELSE IF 80 <= w /\ w < 100 THEN Scale(50)
    ELSE IF 100 <= w /\ w < 120 THEN Scale(60)
    ELSE IF 120 <= w /\ w < 140 THEN Scale(65)
    ELSE IF 140 <= w /\ w < 160 THEN Scale(70)
    ELSE IF 160 <= w /\ w < 180 THEN Scale(75)
    ELSE IF 180 <= w /\ w < 200 THEN Scale(80)
    ELSE IF 200 <= w /\ w < 220 THEN Scale(85)
    ELSE IF 220 <= w /\ w < 260 THEN Scale(90)
    ELSE IF 260 <= w /\ w < 275 THEN Scale(95)
    ELSE IF 275 <= w /\ w < 285 THEN Scale(100)
    ELSE IF 295 <= w /\ w < 315 THEN Scale(110)
    ELSE IF 315 <= w /\ w < 335 THEN Scale(115)
    ELSE IF 335 <= w /\ w < 355 THEN Scale(120)
    ELSE IF 355 <= w /\ w < 375 THEN Scale(125)
    ELSE IF 375 <= w /\ w < 395 THEN Scale(130)
    ELSE IF 395 <= w /\ w < 415 THEN Scale(135)
    ELSE IF 415 <= w /\ w < 439 THEN Scale(140)
    ELSE IF 439 <= w /\ w < 462 THEN Scale(145)
    ELSE IF 462 <= w /\ w < 487 THEN Scale(150)
    ELSE IF 487 <= w /\ w < 510 THEN Scale(155)
    ELSE IF 510 <= w /\ w < 536 THEN Scale(160)
    ELSE IF 536 <= w /\ w < 561 THEN Scale(165)
    ELSE IF 561 <= w /\ w < 587 THEN Scale(170)
    ELSE IF 587 <= w /\ w < 613 THEN Scale(175)
    ELSE ScaleNaN

\* line 207-266.  The local variable scale is assigned only inside the
\* "if np.abs(ws) != undef" block, so "return scale" finds it unbound when
\* the block is skipped.  Every comparison with NaN is false, except !=.
ws2scale_city(ws) ==
    IF ws.nan THEN ScaleNaN
    ELSE IF Abs(ws.v) = undef THEN Unbound
    ELSE LET w == ws.v IN
         IF 0 <= w /\ w < 50 THEN Scale(20)
    ELSE IF 50 <= w /\ w < 80 THEN Scale(40)
    ELSE IF 80 <= w /\ w < 100 THEN Scale(50)
    ELSE IF 100 <= w /\ w < 120 THEN Scale(60)
    ELSE IF 120 <= w /\ w < 140 THEN Scale(65)
    ELSE IF 140 <= w /\ w < 160 THEN Scale(70)
    ELSE IF 160 <= w /\ w < 180 THEN Scale(75)
    ELSE IF 180 <= w /\ w < 200 THEN Scale(80)
    ELSE IF 200 <= w /\ w < 220 THEN Scale(85)
    ELSE IF 220 <= w /\ w < 260 THEN Scale(90)
    ELSE IF 260 <= w /\ w < 275 THEN Scale(95)
    ELSE IF 275 <= w /\ w < 285 THEN Scale(100)
    ELSE IF 285 <= w /\ w < 300 THEN Scale(105)
    ELSE IF 295 <= w /\ w < 315 THEN Scale(110)
    ELSE IF 315 <= w /\ w < 335 THEN Scale(115)
    ELSE IF 335 <= w /\ w < 355 THEN Scale(120)
    ELSE IF 355 <= w /\ w < 375 THEN Scale(125)
    ELSE IF 375 <= w /\ w < 395 THEN Scale(130)
    ELSE IF 395 <= w /\ w < 415 THEN Scale(135)
    ELSE IF 415 <= w /\ w < 439 THEN Scale(140)
    ELSE IF 439 <= w /\ w < 462 THEN Scale(145)
    ELSE IF 462 <= w /\ w < 487 THEN Scale(150)
    ELSE IF 487 <= w /\ w < 510 THEN Scale(155)
    ELSE IF 510 <= w /\ w < 536 THEN Scale(160)
    ELSE IF 536 <= w /\ w < 561 THEN Scale(165)
    ELSE IF 561 <= w /\ w < 587 THEN Scale(170)
    ELSE IF 587 <= w /\ w < 613 THEN Scale(175)
    ELSE ScaleNaN

\* the window maxima tried: band edges, the overlap of the 10.5 and 11 bands,
\* the end of the table, a negative speed, the sentinel of either sign, NaN
GustSpeeds ==
    {Speed(v) : v \in {0, 49, 50, 130, 285, 297, 300, 612, 613, 0 - 10, undef, 0 - undef}}
    \cup {SpeedNaN}

\* a window whose slice is empty has no maximum
EmptySlice == [nan |-> FALSE, v |-> 0 - 1, empty |-> TRUE]
WindowMax(sp) == [nan |-> sp.nan, v |-> sp.v, empty |-> FALSE]

\* how many windows the day of one call has
MaxWindows == 3

UvgInit ==
    /\ n_windows \in 1..MaxWindows
    /\ max_wind_speed = EmptySlice
    /\ uvg_inner = PyNone
    /\ uvg_list = <<>>
    /\ uvg_pc = "loop"
    /\ uvg_exc = "none"

\* line 277-286: one pass of the loop, over a window with the maximum m
UvgWindow ==
    /\ uvg_pc = "loop"
    /\ Len(uvg_list) < n_windows
    /\ \E m \in {WindowMax(sp) : sp \in GustSpeeds} \cup {EmptySlice} :
        /\ max_wind_speed' = m
        /\ IF m.empty
           THEN /\ uvg_list' = Append(uvg_list, PyNone)
                /\ UNCHANGED <<uvg_inner, uvg_pc, uvg_exc>>
           ELSE LET r == ws2scale_city(m) IN
                IF r.exc = "none"
                THEN /\ uvg_inner' = r
                     /\ uvg_list' = Append(uvg_list, r)
                     /\ UNCHANGED <<uvg_pc, uvg_exc>>
                ELSE /\ uvg_pc' = "raised"
                     /\ uvg_exc' = r.exc
                     /\ UNCHANGED <<uvg_inner, uvg_list>>
    /\ UNCHANGED n_windows
    /\ UNCHANGED not_uvg

\* line 288: return uvg_list
UvgReturn ==
    /\ uvg_pc = "loop"
    /\ Len(uvg_list) = n_windows
    /\ uvg_pc' = "returned"
    /\ UNCHANGED <<n_windows, max_wind_speed, uvg_inner, uvg_list, uvg_exc>>
    /\ UNCHANGED not_uvg

UvgNext == UvgWindow \/ UvgReturn

UvgIdle ==
    /\ n_windows = 0 /\ max_wind_speed = EmptySlice /\ uvg_inner = PyNone
    /\ uvg_list = <<>> /\ uvg_pc = "idle" /\ uvg_exc = "none"

-----------------------------------------------------------------------------
(* ws2scale_city on its own: the function applied to a pair of speeds, the *)
(* smaller first.  The bands' edges are all multiples of 0.1 m/s and every *)
(* band is closed below and open above, so a speed has the scale of the    *)
(* multiple of 0.1 m/s at or next below it.                                *)

\* line 262: the upper edge of the last band, 61.3 m/s
TableEnd == 613

\* the speeds tried: every multiple of 0.1 m/s of the table, one below it
\* and the first ones past its end
ScaleSpeeds == (0 - 1)..(TableEnd + 1)

WsInit ==
    /\ ws_a \in ScaleSpeeds
    /\ ws_b \in ScaleSpeeds
    /\ ws_a <= ws_b
    /\ scale_a = PyNone
    /\ scale_b = PyNone
    /\ ws_pc = "a"

\* line 207-266, ws2scale_city(a)
WsCallA ==
    /\ ws_pc = "a"
    /\ scale_a' = ws2scale_city(Speed(ws_a))
    /\ ws_pc' = "b"
    /\ UNCHANGED <<ws_a, ws_b, scale_b>>
    /\ UNCHANGED not_ws

\* line 207-266, ws2scale_city(b)
WsCallB ==
    /\ ws_pc = "b"
    /\ scale_b' = ws2scale_city(Speed(ws_b))
    /\ ws_pc' = "done"
    /\ UNCHANGED <<ws_a, ws_b, scale_a>>
    /\ UNCHANGED not_ws

WsNext == WsCallA \/ WsCallB

WsIdle ==
    /\ ws_a = 0 /\ ws_b = 0 /\ scale_a = PyNone /\ scale_b = PyNone /\ ws_pc = "idle"

-----------------------------------------------------------------------------
(* get_rain_by_3h: the classification of one window.  The window's sample  *)
(* (all times, latitudes and longitudes of the slice) is a bag of cells    *)
(* [tp, sf, cp], amounts in 1/100 mm: cells[k] is how many cells are k.    *)

Cell(tp, sf, cp) == [tp |-> tp, sf |-> sf, cp |-> cp]

\* the cells tried: dry; rain of 0.14 mm and snow of 0.12 mm in 0.14 mm,
\* below both noise floors; a trace of 0.17 mm; rain of 0.18 mm, between
\* the two floors; rain with convective part 2 mm; rain of 6 mm; drizzle;
\* thunder with convective part 5 mm; sleet; sleet of 3 mm; snow of 0.3 mm;
\* snow of 0.5 mm
CellKinds ==
    { Cell(0, 0, 0), Cell(14, 0, 0), Cell(14, 12, 0), Cell(17, 8, 0), Cell(18, 0, 0),
      Cell(400, 0, 200), Cell(600, 0, 0), Cell(400, 0, 300), Cell(800, 0, 500),
      Cell(200, 100, 0), Cell(300, 100, 0), Cell(30, 30, 0), Cell(50, 50, 0) }

\* how many cells of one kind a window has, when it has any
Mults == {1, 4, 19}

\* how many kinds of cell one window mixes
MaxKinds == 3

\* the window with f[k] cells of each kind k of S, and no others
Window(S, f) == [k \in CellKinds |-> IF k \in S THEN f[k] ELSE 0]

KindSets == {T \in SUBSET CellKinds : Cardinality(T) <= MaxKinds}

RECURSIVE SumOver(_, _)
SumOver(S, w) ==
    IF S = {} THEN 0
    ELSE LET k == CHOOSE x \in S : TRUE IN w[k] + SumOver(S \ {k}, w)

\* np.sum(mask): the cells of the window w that satisfy P
CountOf(w, P(_)) == SumOver({k \in DOMAIN w : w[k] > 0 /\ P(k)}, w)

\* np.nanmax over the values V of a mask's cells
MaxOf(V) == CHOOSE x \in V : \A y \in V : y <= x

\* line 391: mon in range(4, 11)
IsSummer(m) == m \in 4..10

\* line 391-394: tp.where(tp >= floor); a cell below the floor is NaN
NoiseFloor(m) == IF IsSummer(m) THEN 20 ELSE 15
TpValid(m, c) == c.tp >= NoiseFloor(m)

\* line 396-401: the masks; a comparison with a NaN tp is false
IsSleet(m, c)   == TpValid(m, c) /\ (c.tp - c.sf) > 10 /\ c.sf > 10
\* mutation: snow wherever the snowfall exceeds 0.1 mm
IsSnow_any_snowfall(m, c) == TpValid(m, c) /\ c.sf > 10
IsSnow(m, c)    == TpValid(m, c) /\ (c.tp - c.sf) < 10 /\ c.sf > 10
IsRain(m, c)    == TpValid(m, c) /\ (c.tp - c.sf) > 10 /\ c.sf < 10
IsThunder(m, c) == IsRain(m, c) /\ c.cp >= 500
IsDrizzle(m, c) == IsRain(m, c) /\ c.cp > 200 /\ c.cp < 500

\* line 403-409
Counts(m, w) ==
    [ precip  |-> CountOf(w, LAMBDA c : IsRain(m, c) \/ IsSleet(m, c) \/ IsSnow(m, c)),
      total   |-> CountOf(w, LAMBDA c : TRUE),
      sleet   |-> CountOf(w, LAMBDA c : IsSleet(m, c)),
      snow    |-> CountOf(w, LAMBDA c : IsSnow(m, c)),
      rain    |-> CountOf(w, LAMBDA c : IsRain(m, c)),
      thunder |-> CountOf(w, LAMBDA c : IsThunder(m, c)),
      drizzle |-> CountOf(w, LAMBDA c : IsDrizzle(m, c)) ]

\* mutation: the maximum is taken over every cell, below the floor or not
TpMax_unmasked(m, w) ==
    LET valid == {k \in DOMAIN w : w[k] > 0}
    IN  IF valid = {} THEN 0 ELSE MaxOf({k.tp : k \in valid})

\* line 411-414
TpMax(m, w) ==
    LET valid == {k \in DOMAIN w : w[k] > 0 /\ TpValid(m, k)}
    IN  IF valid = {} THEN 0 ELSE MaxOf({k.tp : k \in valid})

\* the maxima of rain.data, snow.data and sleet.data
RainMax(m, w)  == MaxOf({k.tp : k \in {c \in DOMAIN w : w[c] > 0 /\ IsRain(m, c)}})
SnowMax(m, w)  == MaxOf({k.sf : k \in {c \in DOMAIN w : w[c] > 0 /\ IsSnow(m, c)}})
SleetMax(m, w) == MaxOf({k.tp : k \in {c \in DOMAIN w : w[c] > 0 /\ IsSleet(m, c)}})

Fraction(n, d) == [num |-> n, den |-> d]

\* mutation: the share of the rain cells alone
RainPercent_rain_only(cnt) ==
    IF cnt.total > 0 THEN Fraction(cnt.rain, cnt.total) ELSE Fraction(0, 1)

\* line 417: count_precip / count_total, or 0
RainPercent(cnt) ==
    IF cnt.total > 0 THEN Fraction(cnt.precip, cnt.total) ELSE Fraction(0, 1)

\* p >= a/10 and p < a/10 for a fraction p
AtLeast(p, a) == 10 * p.num >= a * p.den
Below(p, a)   == 10 * p.num < a * p.den

\* mutation: a share of exactly 5 % does not count
Present_strict(n, total) == 20 * n > total

\* line 421-430: count / count_total >= 0.05
Present(n, total) == 20 * n >= total

\* line 419-430: [sleet, snow, rain, thunder, drizzle], as rain_type[0..4]
RainType(cnt) ==
    IF cnt.total > 0
    THEN [sleet   |-> Present(cnt.sleet, cnt.total),
          snow    |-> Present(cnt.snow, cnt.total),
          rain    |-> Present(cnt.rain, cnt.total),
          thunder |-> Present(cnt.thunder, cnt.total),
          drizzle |-> Present(cnt.drizzle, cnt.total)]
    ELSE [sleet |-> FALSE, snow |-> FALSE, rain |-> FALSE,
          thunder |-> FALSE, drizzle |-> FALSE]

\* mutation: the 3 mm split of sleet applied to rain
HeavyRain_3mm(m, w) == RainMax(m, w) >= 300

\* line 454, 526, 532, 544: np.nanmax(rain.data) >= 5
HeavyRain(m, w) == RainMax(m, w) >= 500

\* mutation: a tie goes to snow
MixDominates_strict(cnt) == cnt.sleet + cnt.rain > cnt.snow

\* line 473: count_sleet + count_rain >= count_snow
MixDominates(cnt) == cnt.sleet + cnt.rain >= cnt.snow

\* mutation: a tie goes to sleet
RainDominates_strict(cnt) == cnt.rain > cnt.sleet

\* line 505, 524: count_rain >= count_sleet
RainDominates(cnt) == cnt.rain >= cnt.sleet

\* line 438-465: the summer half of the year; codes in tenths
SummerCode(rt, p, w, m) ==
    IF rt.thunder THEN
        IF AtLeast(p, 8) THEN 30
        ELSE IF AtLeast(p, 5) /\ Below(p, 8) THEN 31
        ELSE 32
    ELSE IF rt.drizzle THEN
        IF AtLeast(p, 8) THEN 20
        ELSE IF AtLeast(p, 5) /\ Below(p, 8) THEN 21
        ELSE 22
    ELSE IF rt.rain THEN
        IF AtLeast(p, 8) THEN (IF HeavyRain(m, w) THEN 10 ELSE 11)
        ELSE IF AtLeast(p, 5) /\ Below(p, 8) THEN 12
        ELSE IF AtLeast(p, 2) /\ Below(p, 5) THEN 13
        ELSE 14
    ELSE 0

\* line 469-497: winter, snow present
WinterSnowCode(rt, cnt, p, w, m) ==
    IF rt.drizzle \/ rt.sleet \/ rt.rain THEN
        IF MixDominates(cnt) THEN
            IF AtLeast(p, 8) THEN 110
            ELSE IF AtLeast(p, 5) /\ Below(p, 8) THEN 111
            ELSE 112
        ELSE
            IF AtLeast(p, 8) THEN 150
            ELSE IF AtLeast(p, 5) /\ Below(p, 8) THEN 151
            ELSE 152
    ELSE
        IF AtLeast(p, 8) THEN (IF SnowMax(m, w) >= 50 THEN 120 ELSE 121)
        ELSE IF AtLeast(p, 5) /\ Below(p, 8) THEN 122
        ELSE 124

\* line 500-547: winter, no snow present, sleet or rain present
WinterNoSnowCode(rt, cnt, p, w, m) ==
    IF rt.drizzle THEN
        IF rt.rain /\ rt.sleet THEN
            IF RainDominates(cnt) THEN
                IF AtLeast(p, 8) THEN 50
                ELSE IF AtLeast(p, 5) /\ Below(p, 8) THEN 51
                ELSE 52
            ELSE
                IF AtLeast(p, 8) THEN 90
                ELSE IF AtLeast(p, 5) /\ Below(p, 8) THEN 91
                ELSE 92
        ELSE IF rt.sleet THEN
            IF AtLeast(p, 8) THEN 70
            ELSE IF AtLeast(p, 5) /\ Below(p, 8) THEN 71
            ELSE 72
        ELSE IF rt.rain THEN
            IF AtLeast(p, 8) THEN 20
            ELSE IF AtLeast(p, 5) /\ Below(p, 8) THEN 21
            ELSE 22
        ELSE 0
    ELSE
        IF rt.rain /\ rt.sleet THEN
            IF RainDominates(cnt) THEN
                IF AtLeast(p, 8) THEN (IF HeavyRain(m, w) THEN 40 ELSE 41)
                ELSE IF AtLeast(p, 5) /\ Below(p, 8) THEN 42
                ELSE 44
            ELSE
                IF AtLeast(p, 8) THEN (IF HeavyRain(m, w) THEN 80 ELSE 81)
                ELSE IF AtLeast(p, 5) /\ Below(p, 8) THEN 82
                ELSE 84
        ELSE IF rt.sleet THEN
            IF AtLeast(p, 8) THEN (IF SleetMax(m, w) >= 300 THEN 60 ELSE 61)
            ELSE IF AtLeast(p, 5) /\ Below(p, 8) THEN 62
            ELSE 64
        ELSE IF rt.rain THEN
            IF AtLeast(p, 8) THEN (IF HeavyRain(m, w) THEN 10 ELSE 11)
            ELSE IF AtLeast(p, 5) /\ Below(p, 8) THEN 12
            ELSE 14
        ELSE 0

\* line 432-435: the exit taken when no cell precipitates
NoPrecip(cnt) == cnt.precip = 0

\* mutation: the summer table is used in every month
IfRain_always_summer(m, w) ==
    LET cnt == Counts(m, w)
        rt  == RainType(cnt)
        p   == RainPercent(cnt)
    IN  IF NoPrecip(cnt) THEN 0 ELSE SummerCode(rt, p, w, m)

\* line 432-547: the code of the window
IfRain(m, w) ==
    LET cnt == Counts(m, w)
        rt  == RainType(cnt)
        p   == RainPercent(cnt)
    IN  IF NoPrecip(cnt) THEN 0
        ELSE IF IsSummer(m) THEN SummerCode(rt, p, w, m)
        ELSE IF rt.snow THEN WinterSnowCode(rt, cnt, p, w, m)
        ELSE IF rt.sleet \/ rt.rain THEN WinterNoSnowCode(rt, cnt, p, w, m)
        ELSE 0

RainMonths == 1..12

\* line 353-365: the windows of the day of the call, as datetimes
RECURSIVE RainIntervals(_, _)
RainIntervals(t, end_time_bjt) ==
    IF DtLess(t, end_time_bjt)
    THEN LET interval_end == IF DtLess(end_time_bjt, AddSeconds(t, 3 * 3600))
                             THEN end_time_bjt ELSE AddSeconds(t, 3 * 3600)
         IN  <<<<t, interval_end>>>> \o RainIntervals(interval_end, end_time_bjt)
    ELSE <<>>

\* mutation: the month of the issue time decides the season of every window
SeasonMonth_of_issue(start_time_bjt, start) == MonthOf(start_time_bjt.ord)

\* line 390: mon = interval_start.month
SeasonMonth(start_time_bjt, start) == MonthOf(start.ord)

\* no sample has been read; the sample of an empty slice
NoCells == [k \in CellKinds |-> 0]

\* the calls tried, as <<time_str, sample>>: the call is issued at 20:00, the
\* last of its eight windows (17:00 of the next day) holds any sample and
\* each window before it the sample given here.  The last windows lie in
\* July, in January, on April 1 and on November 1; the first two windows of
\* the last two calls lie on March 31 and on October 31.
RainDatasets ==
    { <<strftime(DT(2021, 7, 14, 20, 0, 0)), NoCells>>,
      <<strftime(DT(2021, 1, 14, 20, 0, 0)),
        [k \in CellKinds |-> IF k = Cell(600, 0, 0) THEN 4 ELSE 0]>>,
      <<strftime(DT(2021, 3, 31, 20, 0, 0)),
        [k \in CellKinds |-> IF k = Cell(14, 0, 0) THEN 4
                             ELSE IF k = Cell(600, 0, 0) THEN 1 ELSE 0]>>,
      <<strftime(DT(2021, 10, 31, 20, 0, 0)),
        [k \in CellKinds |-> IF k = Cell(18, 0, 0) THEN 4
                             ELSE IF k = Cell(0, 0, 0) THEN 1 ELSE 0]>> }

NoCounts ==
    [precip |-> 0, total |-> 0, sleet |-> 0, snow |-> 0, rain |-> 0,
     thunder |-> 0, drizzle |-> 0]
NoTypes ==
    [sleet |-> FALSE, snow |-> FALSE, rain |-> FALSE, thunder |-> FALSE, drizzle |-> FALSE]

\* line 352-378: the data are loaded, no window has been processed
RainInit ==
    /\ \E st \in RainDatasets : time_str = st[1] /\ rest_cells = st[2]
    /\ rain_ix = 0
    /\ interval_start = NoTime
    /\ mon = 0
    /\ cells = NoCells
    /\ count = NoCounts
    /\ rain_type = NoTypes
    /\ tpmax = 0
    /\ rain_percent = Fraction(0, 1)
    /\ ifrain = 0
    /\ ifrain_list = <<>>
    /\ tpmax_list = <<>>
    /\ rain_percent_list = <<>>
    /\ rain_pc = "loop"

\* line 353-365, 379-549: the windows of the day, and one pass of the loop,
\* for the window rain_ix + 1, whose sample (line 383-388) is read here
RainWindow ==
    /\ rain_pc = "loop"
    /\ \E start_time_bjt \in {strptime(time_str)} :
       \E intervals \in {RainIntervals(start_time_bjt, EndTimeBoundary(start_time_bjt))} :
          /\ rain_ix < Len(intervals)
          /\ \E i \in {rain_ix + 1} :
             \E m \in {SeasonMonth(start_time_bjt, intervals[i][1])} :
             \E S \in (IF i = Len(intervals) THEN KindSets ELSE {{}}) :
             \E f \in [S -> Mults] :
             \E sample \in {IF i = Len(intervals) THEN Window(S, f) ELSE rest_cells} :
                /\ rain_ix' = i
                /\ interval_start' = intervals[i][1]
                /\ mon' = m
                /\ cells' = sample
                /\ count' = Counts(m, sample)
                /\ tpmax' = TpMax(m, sample)
                /\ ifrain' = IfRain(m, sample)
    /\ tpmax_list' = Append(tpmax_list, tpmax')
    /\ rain_percent' = RainPercent(count')
    /\ rain_percent_list' = Append(rain_percent_list, rain_percent')
    /\ rain_type' = RainType(count')
    /\ ifrain_list' = Append(ifrain_list, ifrain')
    /\ UNCHANGED <<time_str, rest_cells, rain_pc>>
    /\ UNCHANGED not_rain

\* line 551: every window has been processed, the three lists are returned
RainReturn ==
    /\ rain_pc = "loop"
    /\ \E start_time_bjt \in {strptime(time_str)} :
          rain_ix = Len(RainIntervals(start_time_bjt, EndTimeBoundary(start_time_bjt)))
    /\ rain_pc' = "returned"
    /\ UNCHANGED <<mon, cells, count, rain_type, tpmax, rain_percent, ifrain,
                   ifrain_list, tpmax_list, rain_percent_list,
                   time_str, rest_cells, rain_ix, interval_start>>
    /\ UNCHANGED not_rain

RainNext == RainWindow \/ RainReturn

RainIdle ==
    /\ mon = 0 /\ cells = [k \in CellKinds |-> 0] /\ count = NoCounts
    /\ rain_type = NoTypes /\ tpmax = 0 /\ rain_percent = Fraction(0, 1)
    /\ ifrain = 0 /\ ifrain_list = <<>> /\ tpmax_list = <<>>
    /\ rain_percent_list = <<>> /\ rain_pc = "idle"
    /\ time_str = NoMatch /\ rest_cells = NoCells /\ rain_ix = 0
    /\ interval_start = NoTime

-----------------------------------------------------------------------------
(* __main__: the driver.  For every date from start_date to end_date and   *)
(* every issue hour it calls the six calculators and writes one table.     *)
(* The state starts after the two input files were found to exist.  What   *)
(* the files hold is the set "missing" of the variables the loader cannot  *)
(* give (get_era5_data_by_vars returns None), and on_grid, whether the     *)
(* point 31.1922 N, 121.4317 E is a coordinate of the grid.  A calculator  *)
(* is modelled by the shape of what it returns: a list with one entry per  *)
(* window ("val", "None" or "nan"), None, or the exception it raises.      *)

\* a scalar label and slice(a, b), as the indexers of .sel; 1/10000 degree
PointSel(v)    == [kind |-> "point", lo |-> v, hi |-> v]
SliceSel(a, b) == [kind |-> "slice", lo |-> a, hi |-> b]

\* line 591-594
DEFAULT_LON_SLICE  == PointSel(1214317)
DEFAULT_LAT_SLICE  == PointSel(311922)
DEFAULT_TARGET_LAT == SliceSel(320000, 305000)
DEFAULT_TARGET_LON == SliceSel(1205000, 1220000)

\* line 578
hours_to_run == <<5, 11, 17, 20>>

\* xarray, .sel(latitude = lat, longitude = lon): a scalar label that is no
\* coordinate of the index raises KeyError; a slice selects a range
SelExact(lat, lon, grid) ==
    IF (lat.kind = "point" \/ lon.kind = "point") /\ ~grid THEN "KeyError" ELSE "none"

\* xarray, .sel(..., method = "nearest"): refused when an indexer is a slice
SelNearest(lat, lon) ==
    IF lat.kind = "slice" \/ lon.kind = "slice" THEN "NotImplementedError" ELSE "none"

\* what a calculator hands back
NoneVal    == [kind |-> "none", items |-> <<>>]
Uncalled   == [kind |-> "uncalled", items |-> <<>>]
ScalarVal  == [kind |-> "scalar", items |-> <<>>]
ListVal(q) == [kind |-> "list", items |-> q]
Ret(v)     == [exc |-> "none", val |-> v]
Raise(e)   == [exc |-> e, val |-> <<>>]

\* a list with one entry per window: a for a window whose slice is empty
PerWindow(n, empty, a, b) == [i \in 1..n |-> IF i \in empty THEN a ELSE b]

\* line 92-103: a value, or None for an empty slice, appended for each window
OnEmptyTemperature(n, empty) == PerWindow(n, empty, "None", "val")

\* line 67-105
get_temperature_by_3h(miss, abs, grid, lat, lon, n, e) ==
    IF "t2m" \in miss THEN Ret(<<ListVal(<<>>), ListVal(<<>>)>>)
    ELSE IF "t2m" \in abs THEN Raise("KeyError")
    ELSE IF n > 0 /\ SelExact(lat, lon, grid) # "none" THEN Raise(SelExact(lat, lon, grid))
    ELSE Ret(<<ListVal(OnEmptyTemperature(n, e.empty)),
               ListVal(OnEmptyTemperature(n, e.empty))>>)

\* line 108-145
get_rh_by_days(miss, abs, grid, target_lat, target_lon, n, e) ==
    IF n = 0 THEN Raise("IndexError")
    ELSE IF "t2m" \in miss \/ "d2m" \in miss THEN Ret(<<NoneVal, NoneVal>>)
    ELSE IF "t2m" \in abs \/ "d2m" \in abs THEN Raise("KeyError")
    ELSE IF SelNearest(target_lat, target_lon) # "none"
         THEN Raise(SelNearest(target_lat, target_lon))
    ELSE IF e.empty = 1..n THEN Raise("ValueError")
    ELSE Ret(<<ScalarVal, ScalarVal>>)

\* line 148-199
get_wdir_by_3h(miss, abs, grid, lat, lon, n, e) ==
    IF "u10" \in miss \/ "v10" \in miss THEN Ret(<<NoneVal>>)
    ELSE IF "u10" \in abs \/ "v10" \in abs THEN Raise("KeyError")
    ELSE IF n > 0 /\ SelExact(lat, lon, grid) # "none" THEN Raise(SelExact(lat, lon, grid))
    ELSE Ret(<<ListVal(PerWindow(n, e.empty, "nan", "val"))>>)

\* line 202-288; the first window whose maximum is the sentinel ends the
\* call with the UnboundLocalError of ws2scale_city
get_uvg_by_3h(miss, abs, grid, lat, lon, n, e) ==
    IF "i10fg" \in miss THEN Ret(<<NoneVal>>)
    ELSE IF "i10fg" \in abs THEN Raise("KeyError")
    ELSE IF n > 0 /\ SelExact(lat, lon, grid) # "none" THEN Raise(SelExact(lat, lon, grid))
    ELSE IF \E i \in 1..n : i \in e.sentinel /\ i \notin e.empty
         THEN Raise(ws2scale_city(Speed(undef)).exc)
    ELSE Ret(<<ListVal(PerWindow(n, e.empty, "None", "val"))>>)

\* line 291-349; "isobaricInhPa" in miss: r has no such dimension
get_cloud_by_3h(miss, abs, grid, lat, lon, n, e) ==
    IF {"tcc", "lcc", "tp", "r"} \cap miss # {} THEN Ret(<<NoneVal>>)
    ELSE IF n > 0 /\ {"tcc", "lcc", "tp", "r"} \cap abs # {} THEN Raise("KeyError")
    ELSE IF n > 0 /\ SelExact(lat, lon, grid) # "none" THEN Raise(SelExact(lat, lon, grid))
    ELSE IF n > 0 /\ "isobaricInhPa" \in miss THEN Ret(<<NoneVal>>)
    ELSE Ret(<<ListVal(PerWindow(n, e.empty, "val", "val"))>>)

\* line 352-551; no window: time_str is not a date and the strptime of line
\* 353, outside any try, raises
get_rain_by_3h(miss, abs, grid, lat, lon, n, e) ==
    IF n = 0 THEN Raise("ValueError")
    ELSE IF {"tp", "sf", "cp"} \cap miss # {} THEN Ret(<<NoneVal, NoneVal, NoneVal>>)
    ELSE IF {"tp", "sf", "cp"} \cap abs # {} THEN Raise("KeyError")
    ELSE IF n > 0 /\ SelExact(lat, lon, grid) # "none" THEN Raise(SelExact(lat, lon, grid))
    ELSE Ret(<<ListVal(PerWindow(n, e.empty, "val", "val")),
               ListVal(PerWindow(n, e.empty, "val", "val")),
               ListVal(PerWindow(n, e.empty, "val", "val"))>>)

\* line 604: not ifrain_list, true of None and of the empty list
Falsy(v) == v.kind = "none" \/ (v.kind = "list" /\ v.items = <<>>)

\* line 608-620, pd.DataFrame: the list columns must all have the length of
\* the longest; a scalar column (None) is repeated for every row
DataFrameError(cols) ==
    LET lens == {Len(cols[i].items) : i \in {j \in DOMAIN cols : cols[j].kind = "list"}}
    IN  IF Cardinality(lens) > 1 THEN "ValueError" ELSE "none"

\* the variables of the two files.  For each the loader gives the data, or
\* None (in missing: reading the file failed, line 27-30 of the loader), or
\* a dataset without the variable (in absent: the file holds no message of
\* that name and the second open, line 19-25, is returned as it is), on
\* which the first ds[...] of the calculator raises KeyError
FileVars == {"t2m", "d2m", "u10", "v10", "i10fg", "tcc", "lcc", "tp", "r", "sf", "cp"}

\* the dimension of the level file that get_cloud_by_3h asks for
FileDims == {"isobaricInhPa"}

\* how many of them a file lacks, at most
MaxMissing == 2

\* how many days a run covers, at most
MaxDays == 2

\* the first days tried: the default, and the last day of March
DrvStartDates == {ymd2ord(2021, 1, 1), ymd2ord(2021, 3, 31)}

\* what the data hold for the n windows of one issue time: the windows whose
\* slice is empty, and those whose gust maximum is the sentinel
Samples(n) ==
    {[empty |-> em, sentinel |-> se] :
        em \in {{}, {1}, {n}, 1..n}, se \in {{}, {1}, {2}}}

NoLists ==
    [fsttime |-> Uncalled, max_temps_c |-> Uncalled, min_temps_c |-> Uncalled, rh_min |-> Uncalled,
     rh_max |-> Uncalled, wdir |-> Uncalled, uvg |-> Uncalled, cloud |-> Uncalled,
     ifrain |-> Uncalled, tpmax |-> Uncalled, rain_percent |-> Uncalled]

DrvInit ==
    /\ missing \in {m \in SUBSET (FileVars \cup FileDims) : Cardinality(m) <= MaxMissing}
    /\ absent \in {a \in SUBSET (FileVars \ missing) :
                        Cardinality(a) <= MaxMissing - Cardinality(missing)}
    /\ on_grid \in BOOLEAN
    /\ current_date \in DrvStartDates
    /\ end_date \in (current_date - 1)..(current_date + MaxDays - 1)
    /\ hour_ix = 1
    /\ calls = <<>>
    /\ lists = NoLists
    /\ tables = <<>>
    /\ drv_pc = "run"
    /\ drv_exc = "none"

\* line 597-602: the six calls in their order, each with the latitude and
\* longitude arguments the driver gives it
Calls(miss, abs, grid, n, e) ==
    << [fn |-> "get_temperature_by_3h", lat |-> DEFAULT_LAT_SLICE, lon |-> DEFAULT_LON_SLICE,
        r |-> get_temperature_by_3h(miss, abs, grid, DEFAULT_LAT_SLICE, DEFAULT_LON_SLICE, n, e)],
       [fn |-> "get_rh_by_days", lat |-> DEFAULT_TARGET_LAT, lon |-> DEFAULT_TARGET_LON,
        r |-> get_rh_by_days(miss, abs, grid, DEFAULT_TARGET_LAT, DEFAULT_TARGET_LON, n, e)],
       [fn |-> "get_wdir_by_3h", lat |-> DEFAULT_LAT_SLICE, lon |-> DEFAULT_LON_SLICE,
        r |-> get_wdir_by_3h(miss, abs, grid, DEFAULT_LAT_SLICE, DEFAULT_LON_SLICE, n, e)],
       [fn |-> "get_uvg_by_3h", lat |-> DEFAULT_LAT_SLICE, lon |-> DEFAULT_LON_SLICE,
        r |-> get_uvg_by_3h(miss, abs, grid, DEFAULT_LAT_SLICE, DEFAULT_LON_SLICE, n, e)],
       [fn |-> "get_cloud_by_3h", lat |-> DEFAULT_LAT_SLICE, lon |-> DEFAULT_LON_SLICE,
        r |-> get_cloud_by_3h(miss, abs, grid, DEFAULT_LAT_SLICE, DEFAULT_LON_SLICE, n, e)],
       [fn |-> "get_rain_by_3h", lat |-> DEFAULT_LAT_SLICE, lon |-> DEFAULT_LON_SLICE,
        r |-> get_rain_by_3h(miss, abs, grid, DEFAULT_LAT_SLICE, DEFAULT_LON_SLICE, n, e)] >>

\* line 584-626: one issue time
DrvIssue ==
    /\ drv_pc = "run"
    /\ current_date <= end_date
    /\ hour_ix <= Len(hours_to_run)
    /\ \E start_time \in
              {strftime([ord |-> current_date, sec |-> hours_to_run[hour_ix] * 3600,
                         tz |-> NoTz, off |-> 0])} :
       \E intervals \in {generate_three_hour_intervals(start_time)} :
       \E time_intervals_bjt \in {[i \in 1..Len(intervals) |-> intervals[i][1]]} :
       \E n \in {Len(time_intervals_bjt)} :
       \E e \in Samples(n) :
       \E cs \in {Calls(missing, absent, on_grid, n, e)} :
           LET
               raised == {i \in 1..Len(cs) : cs[i].r.exc # "none"}
               first  == IF raised = {} THEN Len(cs) + 1
                         ELSE CHOOSE i \in raised : \A j \in raised : i <= j
               made   == IF first <= Len(cs) THEN first ELSE Len(cs)
               out(i, k) == IF i < first THEN cs[i].r.val[k] ELSE Uncalled
               got    == [fsttime |-> ListVal(time_intervals_bjt),
                          max_temps_c |-> out(1, 1), min_temps_c |-> out(1, 2),
                          rh_min |-> out(2, 1), rh_max |-> out(2, 2),
                          wdir |-> out(3, 1), uvg |-> out(4, 1), cloud |-> out(5, 1),
                          ifrain |-> out(6, 1), tpmax |-> out(6, 2),
                          rain_percent |-> out(6, 3)]
               rhcol(v) == IF v.kind = "uncalled" THEN v
                           ELSE ListVal([i \in 1..n |-> v.kind])
               frame  == DataFrameError(
                            <<got.fsttime, got.max_temps_c, got.min_temps_c,
                              rhcol(got.rh_min), rhcol(got.rh_max), got.wdir, got.uvg,
                              got.cloud, got.ifrain, got.tpmax, got.rain_percent>>)
           IN  /\ calls' = [i \in 1..made |-> [fn |-> cs[i].fn, lat |-> cs[i].lat,
                                               lon |-> cs[i].lon]]
               /\ lists' = got
               /\ IF first <= Len(cs)
                  THEN /\ drv_pc' = "aborted"
                       /\ drv_exc' = cs[first].r.exc
                       /\ UNCHANGED <<tables, hour_ix>>
                  ELSE IF Falsy(got.ifrain)
                  THEN /\ hour_ix' = hour_ix + 1
                       /\ UNCHANGED <<tables, drv_pc, drv_exc>>
                  ELSE IF frame # "none"
                  THEN /\ drv_pc' = "aborted"
                       /\ drv_exc' = frame
                       /\ UNCHANGED <<tables, hour_ix>>
                  ELSE /\ tables' = Append(tables, [start |-> start_time,
                                                    fsttime |-> time_intervals_bjt,
                                                    rows |-> n])
                       /\ hour_ix' = hour_ix + 1
                       /\ UNCHANGED <<drv_pc, drv_exc>>
    /\ UNCHANGED <<missing, absent, on_grid, current_date, end_date>>
    /\ UNCHANGED not_drv

\* line 584, 628: the hours of the day are done, current_date += 1 day
DrvNextDay ==
    /\ drv_pc = "run"
    /\ current_date <= end_date
    /\ hour_ix > Len(hours_to_run)
    /\ current_date' = current_date + 1
    /\ hour_ix' = 1
    /\ UNCHANGED <<missing, absent, on_grid, end_date, calls, lists, tables, drv_pc, drv_exc>>
    /\ UNCHANGED not_drv

\* line 583, 630: current_date is past end_date, the run is complete
DrvFinish ==
    /\ drv_pc = "run"
    /\ current_date > end_date
    /\ drv_pc' = "finished"
    /\ UNCHANGED <<missing, absent, on_grid, current_date, end_date, hour_ix, calls, lists,
                   tables, drv_exc>>
    /\ UNCHANGED not_drv

DrvNext == DrvIssue \/ DrvNextDay \/ DrvFinish

DrvIdle ==
    /\ missing = {} /\ absent = {} /\ on_grid = FALSE /\ current_date = 0 /\ end_date = 0
    /\ hour_ix = 0 /\ calls = <<>> /\ lists = NoLists /\ tables = <<>>
    /\ drv_pc = "idle" /\ drv_exc = "none"

-----------------------------------------------------------------------------
(* get_cloud_by_3h: the cloud code of each window.  The means of the       *)
(* corrected total and low cloud cover of a window, meantcc and meanlcc,   *)
(* are what the data give; they are in 1/10 percent (850 is 85 %), or NaN  *)
(* for a window whose sample is empty.                                     *)

Mean(v) == [nan |-> FALSE, v |-> v]
MeanNaN == [nan |-> TRUE, v |-> 0]

\* x > t for a float x; false for NaN
Gt(x, t) == ~x.nan /\ x.v > t

\* mutation: a total cover above 80 with a low cover above 40 is not enough
Overcast_no_joint(tcc, lcc) == Gt(tcc, 900) \/ Gt(lcc, 900)

\* line 340
Overcast(tcc, lcc) == (Gt(tcc, 800) /\ Gt(lcc, 400)) \/ Gt(tcc, 900) \/ Gt(lcc, 900)

\* line 342
PartlyCloudy(tcc, lcc) == Gt(lcc, 150) \/ Gt(tcc, 400)

\* line 340-345
CloudCode(tcc, lcc) ==
    IF Overcast(tcc, lcc) THEN 2
    ELSE IF PartlyCloudy(tcc, lcc) THEN 1
    ELSE 0

\* the means tried: the thresholds, their neighbours and the scenarios
CloudMeans ==
    {Mean(v) : v \in {0, 50, 100, 150, 151, 200, 400, 401, 500, 800, 801, 850,
                      900, 901, 1000}} \cup {MeanNaN}

\* the datasets are loaded; r_levels: r has the dimension isobaricInhPa
CloudInit ==
    /\ cloud_n \in 0..MaxWindows
    /\ r_levels \in BOOLEAN
    /\ meantcc = MeanNaN
    /\ meanlcc = MeanNaN
    /\ cloud = 0
    /\ cloud_list = <<>>
    /\ cloud_pc = "loop"

\* line 308-347: one pass of the loop
CloudWindow ==
    /\ cloud_pc = "loop"
    /\ Len(cloud_list) < cloud_n
    /\ r_levels
    /\ \E tcc \in CloudMeans, lcc \in CloudMeans :
          /\ meantcc' = tcc
          /\ meanlcc' = lcc
          /\ cloud' = CloudCode(tcc, lcc)
          /\ cloud_list' = Append(cloud_list, cloud')
    /\ UNCHANGED <<cloud_n, r_levels, cloud_pc>>
    /\ UNCHANGED not_cloud

\* line 315-320: r has no dimension isobaricInhPa, the pass returns None
CloudNoLevels ==
    /\ cloud_pc = "loop"
    /\ Len(cloud_list) < cloud_n
    /\ ~r_levels
    /\ cloud_pc' = "returned_none"
    /\ UNCHANGED <<cloud_n, r_levels, meantcc, meanlcc, cloud, cloud_list>>
    /\ UNCHANGED not_cloud

\* line 349: return cloud_list
CloudReturn ==
    /\ cloud_pc = "loop"
    /\ Len(cloud_list) = cloud_n
    /\ cloud_pc' = "returned"
    /\ UNCHANGED <<cloud_n, r_levels, meantcc, meanlcc, cloud, cloud_list>>
    /\ UNCHANGED not_cloud

CloudNext == CloudWindow \/ CloudNoLevels \/ CloudReturn

CloudIdle ==
    /\ cloud_n = 0 /\ r_levels = FALSE /\ meantcc = MeanNaN /\ meanlcc = MeanNaN /\ cloud = 0
    /\ cloud_list = <<>> /\ cloud_pc = "idle"

-----------------------------------------------------------------------------
(* generate_report.py: get_single_response and extract_think_and_content.  *)
(* A text is a sequence of tokens: the two tags, a word and a blank.       *)

Tokens == {"<think>", "</think>", "w", " "}

MaxTextLen == 3

MaxRetries == 2

Texts == UNION {[1..n -> Tokens] : n \in 0..MaxTextLen}

\* sub in text
Contains(text, sub) == \E i \in 1..Len(text) : text[i] = sub

\* text.split(sep, 1) of a text that holds sep
SplitOnce(text, sep) ==
    LET i == CHOOSE j \in 1..Len(text) :
                 /\ text[j] = sep
                 /\ \A k \in 1..(j - 1) : text[k] # sep
    IN  <<SubSeq(text, 1, i - 1), SubSeq(text, i + 1, Len(text))>>

\* text.replace(sub, '')
Remove(text, sub) == SelectSeq(text, LAMBDA t : t # sub)

RECURSIVE LStrip(_)
LStrip(text) ==
    IF text # <<>> /\ Head(text) = " " THEN LStrip(Tail(text)) ELSE text

RECURSIVE RStrip(_)
RStrip(text) ==
    IF text # <<>> /\ text[Len(text)] = " "
    THEN RStrip(SubSeq(text, 1, Len(text) - 1))
    ELSE text

\* text.strip()
Strip(text) == RStrip(LStrip(text))

\* lines 86-99
extract_think_and_content(text) ==
    IF Contains(text, "<think>") /\ Contains(text, "</think>")
    THEN LET parts == SplitOnce(text, "</think>")
         IN  <<Strip(Remove(parts[1], "<think>")), Strip(parts[2])>>
    ELSE IF Contains(text, "</think>")
    THEN LET parts == SplitOnce(text, "</think>")
         IN  <<Strip(parts[1]), Strip(parts[2])>>
    ELSE <<<<>>, Strip(text)>>

\* one call of chat_model.invoke: it raises, or it answers with a content
\* (the empty content stands for '' and for None)
Responses ==
    {[raised |-> TRUE, content |-> <<>>]}
        \cup {[raised |-> FALSE, content |-> t] : t \in Texts}

NoResponse == [raised |-> FALSE, content |-> <<>>]

NoResult == <<>>

\* ["", ""]
EmptyResult == <<<<>>, <<>>>>

\* range(max_retries + 2)
AttemptRange_one_more(m) == 0..(m + 1)

\* range(max_retries + 1), line 105
AttemptRange(m) == 0..m

\* `if content:`, line 109
Truthy(content) == content # <<>>

RespInit ==
    /\ max_retries \in (0 - 1)..MaxRetries
    /\ attempt = 0
    /\ invoked = 0
    /\ response = NoResponse
    /\ result = NoResult
    /\ resp_pc = "loop"

\* one pass of the loop body, lines 105-114
RespAttempt ==
    /\ resp_pc = "loop"
    /\ attempt \in AttemptRange(max_retries)
    /\ \E r \in Responses :
          /\ response' = r
          /\ invoked' = invoked + 1
          /\ IF r.raised
             THEN IF attempt = max_retries
                  THEN /\ result' = EmptyResult
                       /\ resp_pc' = "returned"
                       /\ UNCHANGED attempt
                  ELSE /\ attempt' = attempt + 1
                       /\ UNCHANGED <<result, resp_pc>>
             ELSE IF Truthy(r.content)
                  THEN /\ result' = extract_think_and_content(r.content)
                       /\ resp_pc' = "returned"
                       /\ UNCHANGED attempt
                  ELSE /\ attempt' = attempt + 1
                       /\ UNCHANGED <<result, resp_pc>>
    /\ UNCHANGED max_retries
    /\ UNCHANGED not_resp

\* the loop is over, line 115
RespExhausted ==
    /\ resp_pc = "loop"
    /\ attempt \notin AttemptRange(max_retries)
    /\ result' = EmptyResult
    /\ resp_pc' = "returned"
    /\ UNCHANGED <<max_retries, attempt, invoked, response>>
    /\ UNCHANGED not_resp

RespNext == RespAttempt \/ RespExhausted

RespIdle ==
    /\ max_retries = 0 /\ attempt = 0 /\ invoked = 0
    /\ response = NoResponse /\ result = NoResult /\ resp_pc = "idle"

-----------------------------------------------------------------------------
InitGen ==
    /\ GenInit /\ TzIdle /\ UvgIdle /\ RainIdle /\ WsIdle /\ DrvIdle /\ CloudIdle
    /\ RespIdle
SpecGen == InitGen /\ [][GenNext]_vars

InitTz ==
    /\ TzInit /\ GenIdle /\ UvgIdle /\ RainIdle /\ WsIdle /\ DrvIdle /\ CloudIdle
    /\ RespIdle
SpecTz == InitTz /\ [][TzNext]_vars

InitUvg ==
    /\ UvgInit /\ GenIdle /\ TzIdle /\ RainIdle /\ WsIdle /\ DrvIdle /\ CloudIdle
    /\ RespIdle
SpecUvg == InitUvg /\ [][UvgNext]_vars

InitRain ==
    /\ RainInit /\ GenIdle /\ TzIdle /\ UvgIdle /\ WsIdle /\ DrvIdle /\ CloudIdle
    /\ RespIdle
SpecRain == InitRain /\ [][RainNext]_vars

InitWs ==
    /\ WsInit /\ GenIdle /\ TzIdle /\ UvgIdle /\ RainIdle /\ DrvIdle /\ CloudIdle
    /\ RespIdle
SpecWs == InitWs /\ [][WsNext]_vars

InitDrv ==
    /\ DrvInit /\ GenIdle /\ TzIdle /\ UvgIdle /\ RainIdle /\ WsIdle /\ CloudIdle
    /\ RespIdle
SpecDrv == InitDrv /\ [][DrvNext]_vars

InitCloud ==
    /\ CloudInit /\ GenIdle /\ TzIdle /\ UvgIdle /\ RainIdle /\ WsIdle /\ DrvIdle
    /\ RespIdle
SpecCloud == InitCloud /\ [][CloudNext]_vars

InitResp ==
    /\ RespInit /\ GenIdle /\ TzIdle /\ UvgIdle /\ RainIdle /\ WsIdle /\ DrvIdle
    /\ CloudIdle
\* the function runs to its return: every call of the model answers or raises
SpecResp == InitResp /\ [][RespNext]_vars /\ WF_vars(RespNext)

-----------------------------------------------------------------------------
(* Properties of generate_three_hour_intervals.                            *)

Parseable(s) == s.kind = "str" /\ MatchesFormat(s) /\ FieldsValid(s)

GenDone == gen_pc \in {"returned", "raised"}

\* 20:00 on the calendar day after the date written in the string s
DailyCutoff(s) ==
    [ord |-> ymd2ord(s.Y, s.m, s.d) + 1, sec |-> 20 * 3600, tz |-> NoTz, off |-> 0]

WindowStart(i) == strptime(time_intervals[i][1])
WindowEnd(i)   == strptime(time_intervals[i][2])

\* the returned windows tile [t0, dailyCutoff): first start, contiguity,
\* positive spans of at most three hours, last end
WindowsCover ==
    LET n == Len(time_intervals) IN
    /\ n >= 1
    /\ WindowStart(1) = strptime(start_time_str)
    /\ \A i \in 1..n :
          /\ DtLess(WindowStart(i), WindowEnd(i))
          /\ DtDiff(WindowStart(i), WindowEnd(i)) <= 3 * 3600
    /\ \A i \in 1..(n - 1) : time_intervals[i][2] = time_intervals[i + 1][1]
    /\ WindowEnd(n) = DailyCutoff(start_time_str)

\* C1 as stated: for every parseable start instant the call returns windows
\* that tile [t0, dailyCutoff).
C1_EveryParseableStart ==
    (GenDone /\ Parseable(start_time_str)) => (gen_pc = "returned" /\ WindowsCover)

\* C1, amended: for every parseable start instant whose date is before
\* 9999-12-31 the call returns windows that tile [t0, dailyCutoff) (first
\* start t0, each end the next start, 0 < span <= 3 h, last end 20:00 of the
\* next day); for a start on 9999-12-31, whose next day no datetime can
\* hold, the call raises OverflowError.
C1_WindowsTile ==
    (GenDone /\ Parseable(start_time_str)) =>
        IF ymd2ord(start_time_str.Y, start_time_str.m, start_time_str.d) < MaxOrdinal
        THEN gen_pc = "returned" /\ gen_exc = "none" /\ WindowsCover
        ELSE gen_pc = "raised" /\ gen_exc = "OverflowError"

\* a returned day whose last window was shortened to end at the cutoff
C1_Witness ==
    /\ gen_pc = "returned"
    /\ Parseable(start_time_str)
    /\ Len(time_intervals) >= 2
    /\ DtDiff(WindowStart(Len(time_intervals)), WindowEnd(Len(time_intervals))) < 3 * 3600
    /\ WindowEnd(Len(time_intervals)) = DailyCutoff(start_time_str)

\* C3 as stated: a start that cannot be parsed or validated makes the
\* generator fail with an error (the MalformedInputError), never return an
\* empty window list.
C3_MalformedInputFails ==
    (GenDone /\ ~Parseable(start_time_str)) => gen_pc = "raised"

\* C3, amended: a start string that strptime rejects (no match of the
\* format, or a field out of range) makes the generator return the empty
\* window list; no exception leaves the call.
C3_MalformedInputReturnsEmpty ==
    (GenDone /\ start_time_str.kind # "nonstr" /\ ~Parseable(start_time_str)) =>
        (gen_pc = "returned" /\ gen_exc = "none" /\ time_intervals = <<>>)

\* February 29 of a year that is not leap, returned as the empty list
C3_Witness ==
    /\ gen_pc = "returned"
    /\ start_time_str.kind = "str"
    /\ start_time_str.Y = 2021 /\ start_time_str.m = 2 /\ start_time_str.d = 29
    /\ start_time_str.H = 5 /\ start_time_str.M = 0 /\ start_time_str.S = 0
    /\ time_intervals = <<>>

-----------------------------------------------------------------------------
(* Properties of get_uvg_by_3h.                                            *)

\* the last window's maximum is the sentinel 32767 or -32767
SentinelSeen ==
    ~max_wind_speed.empty /\ ~max_wind_speed.nan /\ Abs(max_wind_speed.v) = undef

\* C4 as stated: for the sentinel speed, after any earlier calls, the scale
\* mapping returns an explicit undefined value (None or NaN) as the window's
\* scale: it neither raises nor returns an earlier window's scale.
C4_SentinelYieldsUndefined ==
    SentinelSeen =>
        /\ uvg_pc # "raised"
        /\ uvg_list # <<>>
        /\ LET last == uvg_list[Len(uvg_list)] IN last.none \/ last.nan

-----------------------------------------------------------------------------
(* Properties of utc_to_beijing and beijing_to_utc.                        *)

\* the naive datetime an argument stands for
ArgTime(a) == IF a.isstr THEN strptime(a.str) ELSE a.dt

\* the wall clock of a datetime, without its tzinfo
Wall(dt) == [dt EXCEPT !.tz = NoTz, !.off = 0]

\* x read as UTC comes back as the same instant from local time
UtcRoundTrip ==
    tz_calls = <<"utc_to_beijing", "beijing_to_utc">> =>
        (tz_val.dt.tz = "UTC" /\ Wall(tz_val.dt) = ArgTime(tz_arg))

\* x read as local time comes back as the same local time from UTC
LocalRoundTrip ==
    tz_calls = <<"beijing_to_utc", "utc_to_beijing">> =>
        (tz_val.dt.tz = "Asia/Shanghai" /\ Wall(tz_val.dt) = ArgTime(tz_arg))

\* the local time of the UTC time x is x + 8 h
UtcPlusEight ==
    tz_calls = <<"utc_to_beijing">> =>
        (tz_val.dt.off = 8 * 3600
         /\ Wall(tz_val.dt) = AddSeconds(ArgTime(tz_arg), 8 * 3600))

\* the UTC time of the local time x is x - 8 h
LocalMinusEight ==
    tz_calls = <<"beijing_to_utc">> =>
        Wall(tz_val.dt) = AddSeconds(ArgTime(tz_arg), 0 - 8 * 3600)

\* C5 as stated: for every instant both round trips return the instant, and
\* local time is UTC + 8 h with no daylight-saving discontinuity.
C5_FixedOffsetEverywhere ==
    UtcRoundTrip /\ LocalRoundTrip /\ UtcPlusEight /\ LocalMinusEight

\* the summer-time periods of the zone: from transition 2i - 1 to 2i
SummerPeriods == 1..(Len(ShanghaiTransitions) \div 2)
SummerStart(i) == ShanghaiTransitions[2 * i - 1].at
SummerEnd(i)   == ShanghaiTransitions[2 * i].at

\* the UTC time t lies in a summer-time period
SummerUtc(t) ==
    \E i \in SummerPeriods : ~DtLess(t, SummerStart(i)) /\ DtLess(t, SummerEnd(i))

\* the local time t is skipped by a spring transition (02:00 to 03:00)
SkippedLocal(t) ==
    \E i \in SummerPeriods :
        /\ ~DtLess(t, AddSeconds(SummerStart(i), 8 * 3600))
        /\ DtLess(t, AddSeconds(SummerStart(i), 9 * 3600))

\* the local time t is on the summer clock only: from 03:00 of the spring
\* day to 01:00 of the autumn day (01:00 to 02:00 of that day comes twice
\* and is read on the standard clock)
SummerLocal(t) ==
    \E i \in SummerPeriods :
        /\ ~DtLess(t, AddSeconds(SummerStart(i), 9 * 3600))
        /\ DtLess(t, AddSeconds(SummerEnd(i), 8 * 3600))

\* C5, amended: UTC -> local -> UTC returns the instant for every instant.
\* The local time of the UTC time x is x + 8 h, except in the summer-time
\* periods of 1986 to 1991, where it is x + 9 h; the UTC time of the local
\* time x is x - 8 h, except on the summer clock, where it is x - 9 h;
\* local -> UTC -> local returns the local time x, except for an x skipped
\* by a spring transition, which comes back one hour later.
C5_RoundTrips ==
    \A x \in {ArgTime(tz_arg)} :
        /\ UtcRoundTrip
        /\ tz_calls = <<"utc_to_beijing">> =>
              \A off \in {IF SummerUtc(x) THEN 9 * 3600 ELSE 8 * 3600} :
                  /\ tz_val.dt.tz = "Asia/Shanghai"
                  /\ tz_val.dt.off = off
                  /\ Wall(tz_val.dt) = AddSeconds(x, off)
        /\ tz_calls = <<"beijing_to_utc">> =>
              /\ tz_val.dt.tz = "UTC"
              /\ Wall(tz_val.dt) =
                     AddSeconds(x, 0 - (IF SummerLocal(x) THEN 9 * 3600 ELSE 8 * 3600))
        /\ tz_calls = <<"beijing_to_utc", "utc_to_beijing">> =>
              /\ tz_val.dt.tz = "Asia/Shanghai"
              /\ Wall(tz_val.dt) = (IF SkippedLocal(x) THEN AddSeconds(x, 3600) ELSE x)

\* a local time of 2021 that went to UTC, eight hours back, and returned
C5_Witness ==
    /\ tz_calls = <<"beijing_to_utc", "utc_to_beijing">>
    /\ ArgTime(tz_arg) = DT(2021, 6, 30, 5, 0, 0)
    /\ Wall(tz_val.dt) = DT(2021, 6, 30, 5, 0, 0)
    /\ tz_val.dt.off = 8 * 3600

-----------------------------------------------------------------------------
(* Properties of get_rain_by_3h.                                           *)

RainDone == rain_ix > 0

\* the values the window emitted into the three lists
EmittedIfrain  == ifrain_list[Len(ifrain_list)]
EmittedTpmax   == tpmax_list[Len(tpmax_list)]
EmittedPercent == rain_percent_list[Len(rain_percent_list)]

\* the window with n cells of kind a and k cells of kind b
TwoKinds(a, n, b, k) ==
    [c \in CellKinds |-> IF c = a THEN n ELSE IF c = b THEN k ELSE 0]

\* C2 as stated: the emitted ifrain is 0 if and only if count_precip is 0.
C2_ZeroIffNoPrecip ==
    RainDone => (EmittedIfrain = 0 <=> count.precip = 0)

\* C2, amended: the emitted ifrain is 0 if and only if count_precip is 0 or
\* none of the types the season's branch looks at reaches the 5 % share:
\* thunder, drizzle and rain in summer; snow, sleet and rain in winter.
C2_ZeroIffNothingPresent ==
    RainDone =>
        (EmittedIfrain = 0 <=>
            \/ count.precip = 0
            \/ IF IsSummer(mon)
               THEN ~(rain_type.thunder \/ rain_type.drizzle \/ rain_type.rain)
               ELSE ~(rain_type.snow \/ rain_type.sleet \/ rain_type.rain))

\* a winter window with precipitating cells, none of whose types reaches
\* 5 %, coded 0
C2_Witness ==
    /\ RainDone /\ ~IsSummer(mon)
    /\ count.precip > 0 /\ count.total > 0
    /\ EmittedIfrain = 0

\* the tier of a fraction p: a / b / c / d for p >= 0.8 / in [0.5, 0.8) /
\* in [0.2, 0.5) / below 0.2
TierOf(p, a, b, c, d) ==
    IF 10 * p.num >= 8 * p.den THEN a
    ELSE IF 10 * p.num >= 5 * p.den THEN b
    ELSE IF 10 * p.num >= 2 * p.den THEN c
    ELSE d

\* the scenario of the specification: five cells, one of them rain of 6 mm
JulyScenario == TwoKinds(Cell(600, 0, 0), 1, Cell(0, 0, 0), 4)

\* C6: in a summer window with count_precip > 0 the category is thunder,
\* else drizzle, else rain among the present types, and the tier follows
\* rain_percent: 3.0/3.1/3.2/3.2, 2.0/2.1/2.2/2.2, (1.0 if the rain maximum
\* is >= 5 mm, else 1.1)/1.2/1.3/1.4; five cells with one rain cell of 6 mm
\* give ifrain 1.3 and tpmax 6.
C6_SummerTable ==
    (RainDone /\ IsSummer(mon) /\ count.precip > 0) =>
        /\ rain_type.thunder =>
              EmittedIfrain = TierOf(EmittedPercent, 30, 31, 32, 32)
        /\ (~rain_type.thunder /\ rain_type.drizzle) =>
              EmittedIfrain = TierOf(EmittedPercent, 20, 21, 22, 22)
        /\ (~rain_type.thunder /\ ~rain_type.drizzle /\ rain_type.rain) =>
              EmittedIfrain =
                  TierOf(EmittedPercent,
                         IF RainMax(mon, cells) >= 500 THEN 10 ELSE 11, 12, 13, 14)
        /\ cells = JulyScenario => (EmittedIfrain = 13 /\ EmittedTpmax = 600)

\* the July scenario, classified
C6_Witness ==
    /\ RainDone /\ mon = 7 /\ cells = JulyScenario
    /\ count.total = 5 /\ count.rain = 1
    /\ rain_type.rain /\ ~rain_type.thunder /\ ~rain_type.drizzle
    /\ EmittedIfrain = 13 /\ EmittedTpmax = 600

\* C7: in a winter window where snow is present, with drizzle, sleet or
\* rain also present the code is 11.x when count_sleet + count_rain >=
\* count_snow and 15.x otherwise, tier .0/.1/.2 for rain_percent >= 0.8 /
\* in [0.5, 0.8) / below 0.5; with snow the only present type the code is
\* 12.0 (rain_percent >= 0.8, snow maximum >= 0.5 mm), 12.1 (>= 0.8, below
\* 0.5 mm), 12.2 (in [0.5, 0.8)) or 12.4.
C7_WinterSnow ==
    (RainDone /\ ~IsSummer(mon) /\ rain_type.snow) =>
        IF rain_type.drizzle \/ rain_type.sleet \/ rain_type.rain
        THEN IF count.sleet + count.rain >= count.snow
             THEN EmittedIfrain = TierOf(EmittedPercent, 110, 111, 112, 112)
             ELSE EmittedIfrain = TierOf(EmittedPercent, 150, 151, 152, 152)
        ELSE EmittedIfrain =
                 TierOf(EmittedPercent,
                        IF SnowMax(mon, cells) >= 50 THEN 120 ELSE 121, 122, 124, 124)

\* a winter window where snow outnumbers the rain that is present with it,
\* at a share between 0.5 and 0.8
C7_Witness ==
    /\ RainDone /\ ~IsSummer(mon)
    /\ rain_type.snow /\ rain_type.rain
    /\ count.sleet + count.rain < count.snow
    /\ EmittedIfrain = 151

\* the integer part of a code in tenths
Category(code) == code \div 10

\* C8: in a winter window where snow is not present and sleet or rain is:
\* with drizzle present the category is 5 (rain and sleet present, count_rain
\* >= count_sleet), 9 (both, count_rain < count_sleet), 7 (sleet only) or 2
\* (rain only); without drizzle it is 4 or 8 (both, same test), 6 (sleet
\* only, 6.0/6.1 split at a sleet maximum of 3 mm) or 1 (rain only, 1.0/1.1
\* split at a rain maximum of 5 mm); the category is in {1,2,4,5,6,7,8,9}.
C8_WinterNoSnow ==
    (RainDone /\ ~IsSummer(mon) /\ ~rain_type.snow
              /\ (rain_type.sleet \/ rain_type.rain)) =>
        LET both == rain_type.rain /\ rain_type.sleet
            top  == 10 * EmittedPercent.num >= 8 * EmittedPercent.den
        IN  /\ Category(EmittedIfrain) \in {1, 2, 4, 5, 6, 7, 8, 9}
            /\ Category(EmittedIfrain) =
                  IF rain_type.drizzle
                  THEN IF both THEN (IF count.rain >= count.sleet THEN 5 ELSE 9)
                       ELSE IF rain_type.sleet THEN 7 ELSE 2
                  ELSE IF both THEN (IF count.rain >= count.sleet THEN 4 ELSE 8)
                       ELSE IF rain_type.sleet THEN 6 ELSE 1
            /\ (~rain_type.drizzle /\ ~both /\ rain_type.sleet /\ top) =>
                  EmittedIfrain = (IF SleetMax(mon, cells) >= 300 THEN 60 ELSE 61)
            /\ (~rain_type.drizzle /\ ~both /\ rain_type.rain /\ top) =>
                  EmittedIfrain = (IF RainMax(mon, cells) >= 500 THEN 10 ELSE 11)

\* a winter window with drizzle, where sleet outnumbers rain: category 9
C8_Witness ==
    /\ RainDone /\ ~IsSummer(mon) /\ ~rain_type.snow
    /\ rain_type.drizzle /\ rain_type.rain /\ rain_type.sleet
    /\ count.rain < count.sleet
    /\ Category(EmittedIfrain) = 9

\* the cells of the window, and those that are sleet, snow or rain
TotalCells  == SumOver({c \in DOMAIN cells : cells[c] > 0}, cells)
PrecipCells ==
    SumOver({c \in DOMAIN cells :
                /\ cells[c] > 0
                /\ IsSleet(mon, c) \/ IsSnow(mon, c) \/ IsRain(mon, c)}, cells)

\* C9: count_precip <= count_total, the emitted rain_percent is between 0
\* and 1, equal to count_precip / count_total when count_total > 0 and to 0
\* when count_total = 0.
C9_RainPercent ==
    RainDone =>
        LET p == EmittedPercent IN
        /\ count.precip = PrecipCells /\ count.total = TotalCells
        /\ count.precip <= count.total
        /\ p.den > 0 /\ 0 <= p.num /\ p.num <= p.den
        /\ count.total > 0 => p.num * count.total = count.precip * p.den
        /\ count.total = 0 => p.num = 0

\* a window where four cells of five precipitate: rain_percent 0.8
C9_Witness ==
    /\ RainDone
    /\ count.total = 5 /\ count.precip = 4
    /\ EmittedPercent = Fraction(4, 5)

RainTypes == {"sleet", "snow", "rain", "thunder", "drizzle"}

\* C10: each type's count is at most the total count, and its flag is set
\* if and only if count / total >= 0.05; no flag is set when the total is 0.
C10_PresentFlags ==
    RainDone =>
        \A t \in RainTypes :
            /\ count[t] <= count.total
            /\ rain_type[t] <=> (count.total > 0 /\ 20 * count[t] >= count.total)

\* one rain cell among twenty: exactly 5 %, present
C10_Witness ==
    /\ RainDone
    /\ count.total = 20 /\ count.rain = 1
    /\ rain_type.rain

\* the tp of the window's cells that the noise floor of the month keeps
ValidTp ==
    {c.tp : c \in {k \in DOMAIN cells :
                      cells[k] > 0 /\ k.tp >= (IF mon \in 4..10 THEN 20 ELSE 15)}}

\* C11 as stated: a window in which no cell is classified as sleet, snow or
\* rain emits ifrain = 0, rain_percent = 0 and tpmax = 0.
C11_NoPrecipAllZero ==
    (RainDone /\ PrecipCells = 0) =>
        (EmittedIfrain = 0 /\ EmittedPercent.num = 0 /\ EmittedTpmax = 0)

\* C11, amended: a window in which no cell is classified as sleet, snow or
\* rain emits ifrain = 0 and rain_percent = 0; its tpmax is the largest tp
\* among the cells at or above the noise floor, classified or not, and is 0
\* exactly when the window has no such cell.
C11_NoPrecipZeroCode ==
    (RainDone /\ PrecipCells = 0) =>
        /\ EmittedIfrain = 0
        /\ EmittedPercent.num = 0
        /\ IF ValidTp = {} THEN EmittedTpmax = 0
           ELSE EmittedTpmax \in ValidTp /\ \A v \in ValidTp : v <= EmittedTpmax

\* a winter window whose only wet cells have tp 0.17 mm and sf 0.08 mm:
\* above the floor, in none of the masks
C11_Witness ==
    /\ RainDone /\ ~IsSummer(mon)
    /\ PrecipCells = 0 /\ TotalCells > 0
    /\ EmittedIfrain = 0 /\ EmittedPercent.num = 0
    /\ EmittedTpmax = 17

\* the floor of the season of month m, in 1/100 mm
FloorOf(m) == IF m \in 4..10 THEN 20 ELSE 15

\* the sleet, snow, rain, thunder and drizzle tests on the amounts of a
\* cell, whatever its tp
RawMask(t, c) ==
    CASE t = "sleet"   -> c.tp - c.sf > 10 /\ c.sf > 10
      [] t = "snow"    -> c.tp - c.sf < 10 /\ c.sf > 10
      [] t = "rain"    -> c.tp - c.sf > 10 /\ c.sf < 10
      [] t = "thunder" -> c.tp - c.sf > 10 /\ c.sf < 10 /\ c.cp >= 500
      [] t = "drizzle" -> c.tp - c.sf > 10 /\ c.sf < 10 /\ c.cp > 200 /\ c.cp < 500

\* C17: the season of a window is that of the month of its own start (April
\* to October summer, otherwise winter); a cell whose tp is below the
\* season's floor (0.2 mm in summer, 0.15 mm in winter) is counted in none
\* of the sleet, snow, rain, thunder and drizzle masks (each count is the
\* count of the cells at or above the floor that pass the type's test) and
\* does not contribute to tpmax.  (The day k of the year y of the window's
\* start lies in the month mon whose floor was used.)
C17_SeasonalFloor ==
    RainDone =>
        \A y \in {YearOf(interval_start.ord)} :
        \A k \in {interval_start.ord - DaysBeforeYear(y)} :
        \A wet \in {{c \in DOMAIN cells : cells[c] > 0}} :
        \A kept \in {{c \in wet : c.tp >= FloorOf(mon)}} :
        /\ interval_start = AddSeconds(strptime(time_str), (rain_ix - 1) * 3 * 3600)
        /\ mon \in 1..12
        /\ DaysBeforeMonth(y, mon) < k
        /\ k <= DaysBeforeMonth(y, mon) + DaysInMonth(y, mon)
        /\ (\E c \in wet \ kept : \E t \in RainTypes : RawMask(t, c)) =>
              \A t \in RainTypes :
                  count[t] = SumOver({c \in kept : RawMask(t, c)}, cells)
        /\ IF kept = {} THEN EmittedTpmax = 0
           ELSE /\ EmittedTpmax \in {c.tp : c \in kept}
                /\ \A c \in kept : c.tp <= EmittedTpmax

\* the window at 17:00 of November 1 of the call issued on October 31 at
\* 20:00, with four cells of 0.14 mm of rain, one of 0.12 mm of snow and one
\* of 0.18 mm of rain: winter, though the call is issued in summer, so the
\* first two kinds are below the floor, in no mask and not in tpmax, and the
\* third, which the summer floor would mask, is counted
C17_Witness ==
    /\ RainDone
    /\ time_str.m = 10 /\ interval_start = DT(2021, 11, 1, 17, 0, 0) /\ mon = 11
    /\ cells = [c \in CellKinds |-> IF c = Cell(14, 0, 0) THEN 4
                                    ELSE IF c \in {Cell(14, 12, 0), Cell(18, 0, 0)} THEN 1
                                    ELSE 0]
    /\ count.total = 6 /\ count.rain = 1 /\ count.snow = 0 /\ count.precip = 1
    /\ EmittedTpmax = 18

\* C18: the sleet, snow and rain masks are pairwise disjoint, so count_precip
\* = count_sleet + count_snow + count_rain; thunder and drizzle are disjoint
\* parts of the rain mask, so count_thunder + count_drizzle <= count_rain,
\* and a present thunder or drizzle flag implies a present rain flag.
C18_MasksDisjoint ==
    RainDone =>
        /\ \A c \in {k \in DOMAIN cells : cells[k] > 0} :
              /\ Cardinality({t \in {"sleet", "snow", "rain"} :
                     \/ t = "sleet" /\ IsSleet(mon, c)
                     \/ t = "snow" /\ IsSnow(mon, c)
                     \/ t = "rain" /\ IsRain(mon, c)}) <= 1
              /\ ~(IsThunder(mon, c) /\ IsDrizzle(mon, c))
              /\ (IsThunder(mon, c) \/ IsDrizzle(mon, c)) => IsRain(mon, c)
        /\ count.precip = count.sleet + count.snow + count.rain
        /\ count.thunder + count.drizzle <= count.rain
        /\ (rain_type.thunder \/ rain_type.drizzle) => rain_type.rain

\* a winter window of sleet, snow and rain cells and no others, each cell
\* counted once
C18_Witness ==
    /\ RainDone /\ ~IsSummer(mon)
    /\ count.sleet > 0 /\ count.snow > 0 /\ count.rain > 0
    /\ count.precip = count.sleet + count.snow + count.rain
    /\ count.precip = count.total

-----------------------------------------------------------------------------
(* Properties of ws2scale_city.                                            *)

\* an outcome that is a number: no exception, not None, not NaN
Defined(r) == r.exc = "none" /\ ~r.none /\ ~r.nan

\* C12: for all speeds a <= b in [0, 61.3) m/s, ws2scale_city(a) and
\* ws2scale_city(b) are defined scales between 2 and 17.5 and
\* ws2scale_city(a) <= ws2scale_city(b).
C12_ScaleMonotonic ==
    (ws_pc = "done" /\ 0 <= ws_a /\ ws_a <= ws_b /\ ws_b < TableEnd) =>
        /\ Defined(scale_a) /\ Defined(scale_b)
        /\ 20 <= scale_a.scale /\ scale_b.scale <= 175
        /\ scale_a.scale <= scale_b.scale

\* 29.7 m/s, inside both the 10.5 band and the 11 band, and 30 m/s, where
\* the 10.5 band ends: scales 10.5 and 11
C12_Witness ==
    /\ ws_pc = "done"
    /\ ws_a = 297 /\ ws_b = 300
    /\ scale_a = Scale(105) /\ scale_b = Scale(110)

-----------------------------------------------------------------------------
(* Properties of the driver.                                               *)

\* the per-window lists of an issue time, by their column
PerWindowColumns ==
    {"max_temps_c", "min_temps_c", "wdir", "uvg", "cloud", "ifrain", "tpmax",
     "rain_percent"}

\* the six calculators of the last issue time all returned
AllReturned == \A f \in DOMAIN lists : lists[f].kind # "uncalled"

\* the last issue time went through to its table
LastWritten ==
    /\ drv_pc # "aborted" /\ AllReturned
    /\ lists.ifrain.kind = "list" /\ lists.ifrain.items # <<>>

\* the windows of the last issue time
WindowCount == Len(lists.fsttime.items)

\* C13 as stated: a missing variable or an empty sample never aborts the
\* run; a run that is aborted was aborted by something else: a point that
\* is not on the grid (KeyError), a selection by slices with method nearest
\* (NotImplementedError) or the gust sentinel (UnboundLocalError).
C13_WindowFailureNeverAborts ==
    drv_pc = "aborted" =>
        \/ drv_exc \in {"NotImplementedError", "UnboundLocalError"}
        \/ drv_exc = "KeyError" /\ ~on_grid

\* the starts of the list q are three hours apart, in increasing order
ThreeHourSteps(q) ==
    \A i \in 1..(Len(q) - 1) : DtDiff(strptime(q[i]), strptime(q[i + 1])) = 3 * 3600

\* C15 as stated: a written table has one row per window of the generator,
\* in increasing order of start, and every per-window list is a list of
\* that length.
C15_EveryListHasWindowLength ==
    LastWritten =>
        /\ tables # <<>>
        /\ tables[Len(tables)].rows = WindowCount
        /\ ThreeHourSteps(tables[Len(tables)].fsttime)
        /\ \A f \in PerWindowColumns :
              lists[f].kind = "list" /\ Len(lists[f].items) = WindowCount

\* the calculators that reduce over a region
Reducers ==
    {"get_temperature_by_3h", "get_wdir_by_3h", "get_uvg_by_3h", "get_cloud_by_3h",
     "get_rain_by_3h"}

\* the rectangle 30.5-32 N, 120.5-122 E, and the point 31.1922 N, 121.4317 E
IsRectangle(c) ==
    /\ c.lat.kind = "slice" /\ {c.lat.lo, c.lat.hi} = {305000, 320000}
    /\ c.lon.kind = "slice" /\ {c.lon.lo, c.lon.hi} = {1205000, 1220000}
IsPoint(c) ==
    /\ c.lat.kind = "point" /\ c.lat.lo = 311922
    /\ c.lon.kind = "point" /\ c.lon.lo = 1214317

\* C16 as stated: every call of a calculator that reduces over a region is
\* given the rectangle, and every call of the humidity calculator the point.
C16_RegionToReducersPointToHumidity ==
    \A i \in DOMAIN calls :
        IF calls[i].fn \in Reducers THEN IsRectangle(calls[i]) ELSE IsPoint(calls[i])

-----------------------------------------------------------------------------
(* Properties of get_cloud_by_3h.                                          *)

\* a window has been coded
CloudCoded == cloud_list # <<>>

\* C14: the code appended for a window is decided by its means alone: 2 if
\* (meantcc > 80 and meanlcc > 40) or meantcc > 90 or meanlcc > 90, otherwise
\* 1 if meanlcc > 15 or meantcc > 40, otherwise 0; (85, 50) gives 2,
\* (50, 20) gives 1, (10, 5) gives 0; the code is always 0, 1 or 2.
C14_CloudCode ==
    CloudCoded =>
        LET t    == meantcc
            l    == meanlcc
            code == cloud_list[Len(cloud_list)]
            two  == \/ (~t.nan /\ t.v > 800 /\ ~l.nan /\ l.v > 400)
                    \/ (~t.nan /\ t.v > 900)
                    \/ (~l.nan /\ l.v > 900)
            one  == (~l.nan /\ l.v > 150) \/ (~t.nan /\ t.v > 400)
        IN  /\ code = (IF two THEN 2 ELSE IF one THEN 1 ELSE 0)
            /\ code = cloud
            /\ \A i \in 1..Len(cloud_list) : cloud_list[i] \in {0, 1, 2}
            /\ (t = Mean(850) /\ l = Mean(500)) => code = 2
            /\ (t = Mean(500) /\ l = Mean(200)) => code = 1
            /\ (t = Mean(100) /\ l = Mean(50)) => code = 0

\* the three scenarios in turn: 2 for (85, 50), 1 for (50, 20), 0 for (10, 5)
C14_Witness ==
    /\ cloud_list = <<2, 1, 0>>
    /\ meantcc = Mean(100) /\ meanlcc = Mean(50)

-----------------------------------------------------------------------------
(* Properties of get_single_response.                                      *)

RespReturned == resp_pc = "returned"

\* the attempts made so far that failed: all but a last one with a content
FailedAttempts ==
    IF invoked > 0 /\ ~response.raised /\ Truthy(response.content)
    THEN invoked - 1
    ELSE invoked

RespSafe ==
    /\ resp_pc \in {"loop", "returned"}
    /\ invoked <= max_retries + 1
    /\ resp_pc = "loop" => /\ result = NoResult
                           /\ FailedAttempts = invoked
                           /\ attempt = invoked
    /\ RespReturned =>
          /\ IF FailedAttempts < invoked
             THEN /\ result = extract_think_and_content(response.content)
                  /\ invoked = attempt + 1
             ELSE /\ result = EmptyResult
                  /\ invoked = IF max_retries < 0 THEN 0 ELSE max_retries + 1
          /\ Len(result) = 2

\* C19: get_single_response invokes the model at most max_retries + 1 times,
\* stops at the first attempt with a non-empty content and returns what
\* extract_think_and_content makes of it; an attempt that raises or answers
\* with an empty content is retried; it returns ["", ""] when every attempt
\* failed; it always returns and never raises.
C19_Retries == [](RespSafe) /\ <>(RespReturned)

\* two failed attempts, the second an empty content or an exception, then a
\* third that answers with a think part and a report
C19_Witness ==
    /\ RespReturned
    /\ max_retries = 2 /\ invoked = 3
    /\ response.content = <<"w", "</think>", "w">>
    /\ result = <<<<"w">>, <<"w">>>>

====
